---------------------------- MODULE Spec2Model ----------------------------
(***************************************************************************)
(* A model of the security core of cityarray-sdk-v2:                       *)
(*   security/signing.py      SignedMessage, MessageSigner, MessageVerifier*)
(*   security/audit.py        AuditEvent, AuditLogger                      *)
(*   security/tiers.py        AlertTier, TierValidator                     *)
(*   security/keys.py         SoftwareKeyStore, KeyManager                 *)
(*   display/secure_engine.py SecureDisplayEngine                          *)
(*                                                                         *)
(* Idealisations, used throughout:                                         *)
(*  - SHA-256 and Ed25519 are collision free and unforgeable: a hash or a  *)
(*    signature is the symbolic term <<tag, ..., payload>> of what was     *)
(*    hashed or signed, so two of them are equal exactly when their        *)
(*    inputs are.                                                          *)
(*  - secrets.token_hex(16) values are drawn from small sets of integers.  *)
(*  - datetime.now(timezone.utc) reads the variable now, a clock of finite *)
(*    resolution that never runs backwards; two reads may return the same  *)
(*    instant.                                                             *)
(*  - Appending a line to the audit log file succeeds, except under        *)
(*    SpecWrite, where each append may fail; a reader that iterates over   *)
(*    the open file sees the lines appended meanwhile.                     *)
(***************************************************************************)
EXTENDS Integers, Sequences, FiniteSets, TLC

VARIABLES
    crypto,          \* signing.py CRYPTO_AVAILABLE (fixed when the module is imported)
    now,             \* the wall clock read by datetime.now(timezone.utc)
    seen_nonces,     \* MessageVerifier._seen_nonces
    inflight,        \* the message on its way to the device, or NoMessage
    origin,          \* history: how the message in flight was made and altered
    tracked,         \* history: a message this verifier has accepted, or NoMessage
    vlast,           \* history: the verify() call just made and its outcome, or NoCall
    thr,             \* the concurrent verify() calls: each thread's position, argument and result
    log_file,        \* the lines of AuditLogger.log_path, in file order
    sequence,        \* AuditLogger._sequence
    last_hash,       \* AuditLogger._last_hash
    phase,           \* where the logger object is: "ready" or inside _load_existing ("loading")
    cursor,          \* _load_existing: the number of lines the for loop has read
    load,            \* history: the file when the constructor started and its iterations
    tamper,          \* history: the alteration made to the stored log, if any
    chain,           \* the result of the last verify_chain() / get_entries() call, or NoResult
    lock,            \* AuditLogger._lock: the thread that holds it, or NoThread
    remote_callback, \* AuditLogger.remote_callback is set
    current_message, \* SecureDisplayEngine._current_message
    backend,         \* the spy backend: the calls it has received
    dlast,           \* history: the display()/clear() call just made and its outcome, or NoCall
    validator,       \* the TierValidator: its constructor argument and its allowed_operators
    pending,         \* a TierAuthorization, or NoPending
    tlast,           \* history: the validate()/add_authorization() call just made, or NoCall
    key_files,       \* the *.key files under SoftwareKeyStore.storage_path: key id -> contents
    store,           \* the SoftwareKeyStore instance: its password and its _keys
    default_key_id,  \* KeyManager.default_key_id, or NoManager
    minted,          \* the number of key pairs generated so far
    klast            \* history: the key store / key manager call just made, or NoCall

vars == <<crypto, now, seen_nonces, inflight, origin, tracked, vlast, thr, log_file, sequence,
          last_hash, phase, cursor, load, tamper, chain, lock, remote_callback,
          current_message, backend, dlast, validator, pending, tlast,
          key_files, store, default_key_id, minted, klast>>

verifierVars == <<seen_nonces, inflight, origin, tracked, vlast>>
threadVars   == <<thr>>
auditVars    == <<log_file, sequence, last_hash, phase, cursor, load, tamper, chain, lock,
                 remote_callback>>
engineVars   == <<current_message, backend, dlast>>
tierVars     == <<validator, pending, tlast>>
keyVars      == <<key_files, store, default_key_id, minted, klast>>

\* what the actions of one part leave alone
notVerifier == <<crypto, now, threadVars, auditVars, engineVars, tierVars,
                keyVars>>
notThreads  == <<crypto, now, inflight, origin, tracked, vlast, auditVars, engineVars,
                 tierVars,
                keyVars>>
notClock    == <<crypto, seen_nonces, inflight, origin, tracked, threadVars, auditVars,
                 current_message, backend, tierVars,
                keyVars>>
notEngine   == <<crypto, now, inflight, origin, tracked, vlast, threadVars, auditVars,
                 tierVars,
                keyVars>>

-----------------------------------------------------------------------------
(* Bounds of the model. *)

MaxTime == 2          \* the clock runs over 0..MaxTime
MaxNonce == 2         \* nonces are drawn from 1..MaxNonce
NonceCapacity == 2    \* stands for MessageVerifier._max_nonces (10000 in the source)
MaxLog == 3           \* log() is called on at most MaxLog records per scenario
MaxShown == 2         \* the engine with its audit log: at most MaxShown records are logged
MaxConfidence == 100  \* a detection confidence is a whole number of hundredths, 0 .. MaxConfidence
MaxFile == 6          \* the log file is followed up to MaxFile lines
MaxKeys == 3          \* at most MaxKeys key pairs are generated per scenario
MaxZone == 10         \* the keys of a dict inside content spell numbers up to MaxZone
MaxAuths == 3         \* validate() is given at most MaxAuths authorizations

-----------------------------------------------------------------------------
(* Values *)

None == <<"None">>
NoMessage == [none |-> TRUE]

DeviceId == "dev-A"                       \* the verifier's own device_id
DeviceIds == {"dev-A", "dev-B", "*"}
Times == 0 .. MaxTime
Nonces == 1 .. MaxNonce
TTLs == {-1, 0, 1}

\* datetime.isoformat().replace('+00:00', 'Z'): the instant, written with a Z suffix
isoformat(t) == <<t, "Z">>
\* datetime.fromisoformat(s.replace('Z', '+00:00')): the instant a written time denotes
fromisoformat(s) == s[1]

SignerKey == "signer-key"
OtherKey == "other-key"

Range(s) == {s[i] : i \in DOMAIN s}

-----------------------------------------------------------------------------
(* security/signing.py *)

Authorization(op) == [operator_id |-> op, timestamp |-> isoformat(0), method |-> "dashboard"]

\* A dict inside content (the field zones, when present) is a function from
\* keys to values.  A key is <<"int", n>>, the Python int n, or <<"str", n>>,
\* the string that spells n in decimal; every other value of the model is a
\* string, a list or a dict with string keys that json writes and reads back
\* unchanged.

\* str(n): the decimal digits of n
RECURSIVE Digits(_)
Digits(n) == IF n < 10 THEN <<n>> ELSE Append(Digits(n \div 10), n % 10)

\* a < b for two strings of digits
RECURSIVE LexLess(_, _)
LexLess(a, b) ==
    IF b = << >> THEN FALSE
    ELSE IF a = << >> THEN TRUE
    ELSE IF Head(a) # Head(b) THEN Head(a) < Head(b)
    ELSE LexLess(Tail(a), Tail(b))

\* the order sorted() puts two keys of one dict in: ints by value, strings
\* by their characters
key_less(j, k) ==
    IF j[1] = "int" THEN j[2] < k[2] ELSE LexLess(Digits(j[2]), Digits(k[2]))

\* json.dumps(d, sort_keys=True): the items sorted by key as the keys are in
\* the dict, each key then written as a string
RECURSIVE json_dumps_sorted(_)
json_dumps_sorted(dict) ==
    IF DOMAIN dict = {} THEN << >>
    ELSE LET first == CHOOSE k \in DOMAIN dict :
                         \A j \in DOMAIN dict \ {k} : key_less(k, j)
             rest == [k \in DOMAIN dict \ {first} |-> dict[k]]
         IN  <<<<Digits(first[2]), dict[first]>>>> \o json_dumps_sorted(rest)

\* json.loads(json.dumps(d)): every key comes back as the string it was
\* written as
json_round_trip(dict) ==
    [k \in {<<"str", j[2]>> : j \in DOMAIN dict} |->
        dict[CHOOSE j \in DOMAIN dict : j[2] = k[2]]]

\* the content as json.dumps(..., sort_keys=True) writes it
canonical(content) ==
    IF "zones" \in DOMAIN content
    THEN [content EXCEPT !.zones = json_dumps_sorted(@)]
    ELSE content

\* payload_for_signing with the tier left out of the signed payload
payload_without_tier(m) ==
    <<m.authorizations, canonical(m.content), m.device_id, m.expires, m.message_id,
      m.nonce, m.timestamp>>

\* SignedMessage.payload_for_signing: every field but the signature, under
\* sorted keys; the bytes are equal exactly when the eight values as written
\* are.
payload_for_signing(m) ==
    <<m.authorizations, canonical(m.content), m.device_id, m.expires, m.message_id,
      m.nonce, m.tier, m.timestamp>>

\* SignedMessage.from_json(m.to_json()): json.dumps of to_dict(), json.loads
\* and from_dict; the authorizations go through Authorization.to_dict and
\* from_dict
from_json_to_json(m) ==
    [m EXCEPT !.content = IF "zones" \in DOMAIN @
                          THEN [@ EXCEPT !.zones = json_round_trip(@)]
                          ELSE @,
              !.authorizations = [i \in DOMAIN @ |->
                                     [operator_id |-> @[i].operator_id,
                                      timestamp |-> @[i].timestamp,
                                      method |-> @[i].method]]]

\* hashlib.sha256(payload).hexdigest()
sha256(payload) == <<"sha256", payload>>

\* Ed25519PrivateKey.sign(payload).hex()
ed25519_sign(key, payload) == <<"ed25519", key, payload>>

\* A signature string that is not hexadecimal
MalformedSignature == <<"not-hex">>

\* MessageSigner.sign: the development stub when the cryptography library is
\* missing, Ed25519 otherwise
sign(m, key, crypto_available) ==
    [m EXCEPT !.signature =
        IF ~crypto_available
        THEN <<"DEV:", sha256(payload_for_signing(m))>>
        ELSE ed25519_sign(key, payload_for_signing(m))]

\* MessageSigner.create_signed_message, called at instant t; message_id and
\* nonce are the two token_hex draws
create_signed_message(device_id, tier, content, ttl_seconds, authorizations, message_id, nonce, t, key, crypto_available) ==
    sign([message_id     |-> message_id,
          device_id      |-> device_id,
          timestamp      |-> isoformat(t),
          expires        |-> isoformat(t + ttl_seconds),
          nonce          |-> nonce,
          tier           |-> tier,
          content        |-> content,
          authorizations |-> authorizations,
          signature      |-> None],
         key, crypto_available)

\* is_expired with one instant of grace
is_expired_grace(m, t) == t > fromisoformat(m.expires) + 1

\* A written time carries its UTC offset ("Z") or none ("").  Without one,
\* fromisoformat returns an offset-naive datetime, and its comparison with
\* datetime.now(timezone.utc) in is_expired raises TypeError.
has_offset(s) == s[2] = "Z"

\* the same message with its expiry written without the UTC offset
Offsetless(m) == [m EXCEPT !.expires = <<fromisoformat(m.expires), "">>]

\* SignedMessage.is_expired, evaluated at instant t
is_expired(m, t) == t > fromisoformat(m.expires)

\* bytes.fromhex(message.signature) raises ValueError
IsHex(sig) == sig[1] = "ed25519"

\* The signature branch of MessageVerifier.verify (lines 303-325): "ok" or the
\* SignatureError raised
signature_check(m, crypto_available) ==
    IF m.signature = None THEN "Message has no signature"
    ELSE IF ~crypto_available
    THEN IF m.signature[1] = "DEV:"
         THEN IF m.signature # <<"DEV:", sha256(payload_for_signing(m))>>
              THEN "Invalid development stub signature"
              ELSE "ok"
         ELSE "Production signature but crypto not available"
    ELSE IF ~IsHex(m.signature) THEN "Malformed signature"
    ELSE IF m.signature # ed25519_sign(SignerKey, payload_for_signing(m))
         THEN "Invalid signature"
         ELSE "ok"

\* verify with the checks in the order of its docstring (signature first)
verify_sig_first(m, seen, t, crypto_available) ==
    IF signature_check(m, crypto_available) # "ok"
    THEN [error |-> "SignatureError", detail |-> signature_check(m, crypto_available),
          checks |-> <<"signature">>]
    ELSE IF m.device_id # DeviceId /\ m.device_id # "*"
    THEN [error |-> "ValueError", detail |-> "device",
          checks |-> <<"signature", "device">>]
    ELSE IF ~has_offset(m.expires)
    THEN [error |-> "TypeError", detail |-> "offset-naive",
          checks |-> <<"signature", "device", "expiration">>]
    ELSE IF is_expired(m, t)
    THEN [error |-> "MessageExpiredError", detail |-> "expired",
          checks |-> <<"signature", "device", "expiration">>]
    ELSE IF m.nonce \in seen
    THEN [error |-> "ReplayDetectedError", detail |-> "replay",
          checks |-> <<"signature", "device", "expiration", "replay">>]
    ELSE [error |-> "ok", detail |-> "ok",
          checks |-> <<"signature", "device", "expiration", "replay">>]

\* verify with the replay check left out
verify_replay_unchecked(m, seen, t, crypto_available) ==
    IF m.device_id # DeviceId /\ m.device_id # "*"
    THEN [error |-> "ValueError", detail |-> "device", checks |-> <<"device">>]
    ELSE IF ~has_offset(m.expires)
    THEN [error |-> "TypeError", detail |-> "offset-naive",
          checks |-> <<"device", "expiration">>]
    ELSE IF is_expired(m, t)
    THEN [error |-> "MessageExpiredError", detail |-> "expired",
          checks |-> <<"device", "expiration">>]
    ELSE IF signature_check(m, crypto_available) # "ok"
    THEN [error |-> "SignatureError", detail |-> signature_check(m, crypto_available),
          checks |-> <<"device", "expiration", "signature">>]
    ELSE [error |-> "ok", detail |-> "ok",
          checks |-> <<"device", "expiration", "signature">>]

\* MessageVerifier.verify up to the point where the nonce is recorded: the
\* exception raised ("ok" when none) and the checks that ran, in order.
verify(m, seen, t, crypto_available) ==
    IF m.device_id # DeviceId /\ m.device_id # "*"
    THEN [error |-> "ValueError", detail |-> "device", checks |-> <<"device">>]
    ELSE IF ~has_offset(m.expires)
    THEN [error |-> "TypeError", detail |-> "offset-naive",
          checks |-> <<"device", "expiration">>]
    ELSE IF is_expired(m, t)
    THEN [error |-> "MessageExpiredError", detail |-> "expired",
          checks |-> <<"device", "expiration">>]
    ELSE IF m.nonce \in seen
    THEN [error |-> "ReplayDetectedError", detail |-> "replay",
          checks |-> <<"device", "expiration", "replay">>]
    ELSE IF signature_check(m, crypto_available) # "ok"
    THEN [error |-> "SignatureError", detail |-> signature_check(m, crypto_available),
          checks |-> <<"device", "expiration", "replay", "signature">>]
    ELSE [error |-> "ok", detail |-> "ok",
          checks |-> <<"device", "expiration", "replay", "signature">>]

\* record_nonce without the add: the nonce is never recorded
record_nonce_forgotten(seen, nonce) == {seen}

\* Lines 327-333: the nonce is added; when the set then exceeds the capacity,
\* list(self._seen_nonces)[:capacity // 2] is discarded.  A set of strings is
\* listed in hash order, which differs from run to run, so any capacity // 2
\* of the nonces may be the ones discarded.
record_nonce(seen, nonce) ==
    LET added == seen \cup {nonce}
    IN  IF Cardinality(added) > NonceCapacity
        THEN {added \ gone : gone \in {g \in SUBSET added :
                                          Cardinality(g) = NonceCapacity \div 2}}
        ELSE {added}

-----------------------------------------------------------------------------
(* The verifier and the messages delivered to it.  A message is created by *)
(* the signer, may be altered on its way, and is handed to verify() any    *)
(* number of times.                                                        *)

NoCall == [none |-> TRUE]

Content1 == [template_id |-> "crowd-count"]
Content2 == [template_id |-> "hacked"]

SignedFields == {"message_id", "device_id", "timestamp", "expires", "nonce",
                 "tier", "content", "authorizations"}

\* The values an alteration may write to a field
Alterations(f) ==
    CASE f = "message_id"     -> {1, 2}
      [] f = "device_id"      -> DeviceIds
      [] f = "timestamp"      -> {isoformat(0), isoformat(1)}
      [] f = "expires"        -> {isoformat(-1), isoformat(MaxTime + 1)}
      [] f = "nonce"          -> Nonces
      [] f = "tier"           -> {"informational", "emergency"}
      [] f = "content"        -> {Content1, Content2}
      [] f = "authorizations" -> {<< >>, <<Authorization("op1")>>}

\* The signatures a sender without the signer's key can attach
ForgeryKinds == {"none", "malformed", "other-key", "stub"}

Forgery(m, kind) ==
    CASE kind = "none"      -> None
      [] kind = "malformed" -> MalformedSignature
      [] kind = "other-key" -> ed25519_sign(OtherKey, payload_for_signing(m))
      [] kind = "stub"      -> <<"DEV:", sha256(payload_for_signing(m))>>

VerifierInit ==
    /\ seen_nonces = {}
    /\ inflight = NoMessage
    /\ origin = NoCall
    /\ tracked = NoMessage
    /\ vlast = NoCall

\* the clock advances; the call just made is no longer the last thing that
\* happened
Tick ==
    /\ now < MaxTime
    /\ now' = now + 1
    /\ vlast' = NoCall
    /\ dlast' = NoCall
    /\ UNCHANGED notClock

\* signer.create_signed_message(device_id, "informational", content, ttl)
Create(d, ttl, n) ==
    /\ inflight' = create_signed_message(d, "informational", Content1, ttl, << >>,
                                         1, n, now, SignerKey, crypto)
    /\ origin' = [ttl |-> ttl, altered |-> "none", forged |-> "none"]
    /\ vlast' = NoCall
    /\ UNCHANGED <<seen_nonces, tracked, notVerifier>>

\* message.<f> = v after signing: one signed field is written, the signature
\* is left as the signer made it
Mutate(f, v) ==
    /\ inflight # NoMessage
    /\ origin.altered = "none" /\ origin.forged = "none"
    /\ v # inflight[f]
    /\ inflight' = [inflight EXCEPT ![f] = v]
    /\ origin' = [origin EXCEPT !.altered = f]
    /\ vlast' = NoCall
    /\ UNCHANGED <<seen_nonces, tracked, notVerifier>>

\* the signature is replaced by one made without the signer's key
Forge(kind) ==
    /\ inflight # NoMessage
    /\ origin.altered = "none" /\ origin.forged = "none"
    /\ Forgery(inflight, kind) # inflight.signature
    /\ inflight' = [inflight EXCEPT !.signature = Forgery(inflight, kind)]
    /\ origin' = [origin EXCEPT !.forged = kind]
    /\ vlast' = NoCall
    /\ UNCHANGED <<seen_nonces, tracked, notVerifier>>

\* What a verify() call leaves for the properties to read
Outcome(r, m, again, evicted) ==
    [error |-> r.error, detail |-> r.detail, checks |-> r.checks, at |-> now,
     seen_had |-> m.nonce \in seen_nonces, again |-> again, evicted |-> evicted,
     seen |-> seen_nonces, nonce |-> m.nonce]

\* verifier.verify(message) on the message in flight
Verify ==
    /\ inflight # NoMessage
    /\ LET r == verify(inflight, seen_nonces, now, crypto)
       IN  /\ vlast' = Outcome(r, inflight, FALSE, FALSE)
           /\ IF r.error = "ok"
              THEN seen_nonces' \in record_nonce(seen_nonces, inflight.nonce)
              ELSE UNCHANGED seen_nonces
    /\ UNCHANGED <<inflight, origin, tracked, notVerifier>>

-----------------------------------------------------------------------------
(* Initial values of the parts a specification leaves alone *)

NoResult == <<"NoResult">>
NoThread == 0
NoPending == [none |-> TRUE]
GENESIS_HASH == <<"GENESIS">>

ThreadInit == thr = << >>

AuditInit ==
    /\ log_file = << >>
    /\ sequence = 0
    /\ last_hash = GENESIS_HASH
    /\ phase = "ready"
    /\ cursor = 0
    /\ load = NoCall
    /\ tamper = NoCall
    /\ chain = NoResult
    /\ lock = NoThread
    /\ remote_callback = FALSE

EngineInit ==
    /\ current_message = NoMessage
    /\ backend = << >>
    /\ dlast = NoCall
    /\ validator = [arg |-> None, allowed_operators |-> <<"None">>]
    /\ pending = NoPending
    /\ tlast = NoCall

\* no key store and no key manager have been constructed
NoStore == [none |-> TRUE]
NoManager == <<"NoManager">>
EmptyMap == [i \in {} |-> None]

KeyInit ==
    /\ key_files = EmptyMap
    /\ store = NoStore
    /\ default_key_id = NoManager
    /\ minted = 0
    /\ klast = NoCall

-----------------------------------------------------------------------------
(* SpecVerify: one verifier, the signer, the channel and the clock *)

InitVerify ==
    /\ crypto \in BOOLEAN
    /\ now = 0
    /\ VerifierInit /\ KeyInit /\ ThreadInit /\ AuditInit /\ EngineInit

NextVerify ==
    \/ Tick
    \/ \E d \in DeviceIds, ttl \in TTLs, n \in Nonces : Create(d, ttl, n)
    \/ \E f \in SignedFields : \E v \in Alterations(f) : Mutate(f, v)
    \/ \E kind \in ForgeryKinds : Forge(kind)
    \/ Verify

SpecVerify == InitVerify /\ [][NextVerify]_vars

-----------------------------------------------------------------------------
(* Properties of verify(), read off the last call (SpecVerify) *)

Called == vlast # NoCall
AsSigned == origin.altered = "none" /\ origin.forged = "none"

DeviceViolated == inflight.device_id # DeviceId /\ inflight.device_id # "*"
ExpiryViolated == vlast.at > fromisoformat(inflight.expires)
ReplayViolated == vlast.seen_had
SignatureViolated == signature_check(inflight, crypto) # "ok"

EarliestViolation ==
    IF DeviceViolated THEN "ValueError"
    ELSE IF ExpiryViolated THEN "MessageExpiredError"
    ELSE IF ReplayViolated THEN "ReplayDetectedError"
    ELSE IF SignatureViolated THEN "SignatureError"
    ELSE "ok"

CheckOrder == <<"device", "expiration", "replay", "signature">>

C5_NonPositiveTtlExpired ==
    (Called /\ AsSigned /\ origin.ttl <= 0) => vlast.error = "MessageExpiredError"

\* C5, amended: a message created with ttl_seconds < 0, or with ttl_seconds = 0
\* and verified at an instant later than its creation, and addressed to the
\* verifier or to "*", yields MessageExpiredError whenever it is verified, and
\* neither the replay nor the signature check has run by then.
C5_ExpiredBeforeReplayAndSignature ==
    ( /\ Called /\ AsSigned /\ ~DeviceViolated
      /\ \/ origin.ttl < 0
         \/ origin.ttl = 0 /\ vlast.at > fromisoformat(inflight.timestamp) ) =>
        /\ vlast.error = "MessageExpiredError"
        /\ vlast.checks = <<"device", "expiration">>

\* a ttl 0 message whose nonce is already in the seen-set is reported expired
C5_Witness ==
    /\ Called /\ AsSigned /\ ~DeviceViolated /\ origin.ttl = 0
    /\ vlast.seen_had
    /\ vlast.error = "MessageExpiredError"

-----------------------------------------------------------------------------
(* SpecReplay: one verifier that is handed freshly created messages and,   *)
(* again and again, a message it has accepted before                        *)

\* enough nonces for the seen-set to overflow
ReplayNonces == 1 .. (NonceCapacity + 1)

Overflows(seen, nonce) == Cardinality(seen \cup {nonce}) > NonceCapacity

\* m = signer.create_signed_message(d, ..., ttl); verifier.verify(m)
Deliver(d, ttl, n) ==
    LET m == create_signed_message(d, "informational", Content1, ttl, << >>,
                                   1, n, now, SignerKey, crypto)
        r == verify(m, seen_nonces, now, crypto)
    IN  /\ vlast' = Outcome(r, m, FALSE, FALSE)
        /\ IF r.error = "ok"
           THEN /\ seen_nonces' \in record_nonce(seen_nonces, n)
                /\ \/ tracked' = [msg |-> m, evicted |-> Overflows(seen_nonces, n)]
                   \/ /\ tracked # NoMessage
                      /\ tracked' = [tracked EXCEPT
                                        !.evicted = @ \/ Overflows(seen_nonces, n)]
                   \/ /\ tracked = NoMessage
                      /\ tracked' = tracked
           ELSE UNCHANGED <<seen_nonces, tracked>>
        /\ UNCHANGED <<inflight, origin, notVerifier>>

\* verifier.verify(m) for the message m accepted before
Replay ==
    /\ tracked # NoMessage
    /\ LET m == tracked.msg
           r == verify(m, seen_nonces, now, crypto)
       IN  /\ vlast' = Outcome(r, m, TRUE, tracked.evicted)
           /\ IF r.error = "ok"
              THEN /\ seen_nonces' \in record_nonce(seen_nonces, m.nonce)
                   /\ tracked' = [tracked EXCEPT
                                     !.evicted = @ \/ Overflows(seen_nonces, m.nonce)]
              ELSE UNCHANGED <<seen_nonces, tracked>>
    /\ UNCHANGED <<inflight, origin, notVerifier>>

NextReplay ==
    \/ Tick
    \/ \E d \in DeviceIds, ttl \in TTLs, n \in ReplayNonces : Deliver(d, ttl, n)
    \/ Replay

SpecReplay == InitVerify /\ [][NextReplay]_vars

\* C2 as stated: once a verifier has accepted a message, every later verify of
\* that message by that verifier fails with ReplayDetectedError.
C2_LaterVerifyIsReplay ==
    (Called /\ vlast.again) => vlast.error = "ReplayDetectedError"

\* C2, amended: once a verifier has accepted a message, and for as long as the
\* seen-set has not overflowed its capacity since, every later verify of that
\* message by that verifier fails, whatever was verified in between: with
\* ReplayDetectedError while the message has not expired and with
\* MessageExpiredError afterwards.
C2_AcceptedOnce ==
    (Called /\ vlast.again /\ ~vlast.evicted) =>
        vlast.error = IF vlast.at > fromisoformat(tracked.msg.expires)
                      THEN "MessageExpiredError"
                      ELSE "ReplayDetectedError"

\* the accepted message is refused as a replay after another message has been
\* accepted in between
C2_Witness ==
    /\ Called /\ vlast.again /\ ~vlast.evicted
    /\ vlast.error = "ReplayDetectedError"
    /\ Cardinality(seen_nonces) >= 2

-----------------------------------------------------------------------------
(* SpecThreads: two threads call verify() on one MessageVerifier.  verify   *)
(* takes no lock, so a thread may be preempted between any two of its       *)
(* statements; each check and the recording of the nonce is one step.       *)

Threads == {1, 2}

Idle == [pc |-> "idle", msg |-> NoMessage, error |-> "none"]

InitThreads ==
    /\ crypto \in BOOLEAN
    /\ now = 0
    /\ VerifierInit /\ KeyInit /\ AuditInit /\ EngineInit
    /\ thr = [t \in Threads |-> Idle]

\* the messages the signer has made by now
SignedSoFar ==
    {create_signed_message(d, "informational", Content1, ttl, << >>, 1, n, t0,
                           SignerKey, crypto) :
        d \in {DeviceId, "dev-B"}, ttl \in {0, 1}, n \in Nonces, t0 \in 0 .. now}

Goto(t, pc, error) == thr' = [thr EXCEPT ![t].pc = pc, ![t].error = error]

\* thread t enters verify(m)
Call(t, m) ==
    /\ thr[t].pc = "idle"
    /\ thr' = [thr EXCEPT ![t] = [pc |-> "device", msg |-> m, error |-> "none"]]
    /\ UNCHANGED <<seen_nonces, notThreads>>

\* lines 291-293
CheckDevice(t) ==
    /\ thr[t].pc = "device"
    /\ IF thr[t].msg.device_id # DeviceId /\ thr[t].msg.device_id # "*"
       THEN Goto(t, "done", "ValueError")
       ELSE Goto(t, "expiration", "none")
    /\ UNCHANGED <<seen_nonces, notThreads>>

\* lines 295-297
CheckExpired(t) ==
    /\ thr[t].pc = "expiration"
    /\ IF is_expired(thr[t].msg, now)
       THEN Goto(t, "done", "MessageExpiredError")
       ELSE Goto(t, "replay", "none")
    /\ UNCHANGED <<seen_nonces, notThreads>>

\* lines 299-301
CheckReplay(t) ==
    /\ thr[t].pc = "replay"
    /\ IF thr[t].msg.nonce \in seen_nonces
       THEN Goto(t, "done", "ReplayDetectedError")
       ELSE Goto(t, "signature", "none")
    /\ UNCHANGED <<seen_nonces, notThreads>>

\* lines 303-325
CheckSignature(t) ==
    /\ thr[t].pc = "signature"
    /\ IF signature_check(thr[t].msg, crypto) # "ok"
       THEN Goto(t, "done", "SignatureError")
       ELSE Goto(t, "record", "none")
    /\ UNCHANGED <<seen_nonces, notThreads>>

\* lines 327-336
RecordNonce(t) ==
    /\ thr[t].pc = "record"
    /\ seen_nonces' \in record_nonce(seen_nonces, thr[t].msg.nonce)
    /\ Goto(t, "done", "ok")
    /\ UNCHANGED notThreads

NextThreads ==
    \/ Tick
    \/ \E t \in Threads, m \in SignedSoFar : Call(t, m)
    \/ \E t \in Threads : CheckDevice(t)
    \/ \E t \in Threads : CheckExpired(t)
    \/ \E t \in Threads : CheckReplay(t)
    \/ \E t \in Threads : CheckSignature(t)
    \/ \E t \in Threads : RecordNonce(t)

SpecThreads == InitThreads /\ [][NextThreads]_vars

\* C3: when two concurrent verify calls on one verifier are given the same
\* validly signed message, at most one of them returns success.
C3_AtMostOneSucceeds ==
    ( /\ thr[1].pc = "done" /\ thr[2].pc = "done"
      /\ thr[1].msg = thr[2].msg ) =>
        ~(thr[1].error = "ok" /\ thr[2].error = "ok")

-----------------------------------------------------------------------------
(* security/tiers.py *)

AlertTier == {"informational", "advisory", "warning", "emergency", "ipaws"}

requires_human(tier) == tier \in {"warning", "emergency"}

\* requires_multiparty for no tier at all
requires_multiparty_never(tier) == FALSE

requires_multiparty(tier) == tier = "emergency"

min_authorizations(tier) ==
    IF tier = "emergency" THEN 2
    ELSE IF tier = "warning" THEN 1
    ELSE 0

AUTONOMOUS_TEMPLATES(tier) ==
    CASE tier = "informational" ->
            {"crowd-count", "weather-current", "time-display", "event-info", "wayfinding"}
      [] tier = "advisory" ->
            {"area-congested", "weather-advisory", "event-starting", "event-ending",
             "alternate-route"}
      [] OTHER -> {}

\* is_template_autonomous that looks the template up in every tier's list
is_template_autonomous_any_tier(tier, template_id) ==
    \E other \in {"informational", "advisory"} : template_id \in AUTONOMOUS_TEMPLATES(other)

is_template_autonomous(tier, template_id) ==
    IF requires_human(tier) THEN FALSE
    ELSE template_id \in AUTONOMOUS_TEMPLATES(tier)

\* TierValidator.__init__: set(allowed_operators) if allowed_operators else None
allowed_operators_of(arg) ==
    IF arg = None \/ arg = << >> THEN <<"None">> ELSE <<"set", Range(arg)>>

OperatorIds(authorizations) == [i \in DOMAIN authorizations |-> authorizations[i].operator_id]

\* TierValidator.validate: <<is_valid, reason>>
validate(tier, template_id, authorizations, allowed_operators) ==
    IF ~requires_human(tier)
    THEN IF is_template_autonomous(tier, template_id)
         THEN <<TRUE, "None">>
         ELSE <<FALSE, "not approved for autonomous">>
    ELSE IF Len(authorizations) < min_authorizations(tier)
    THEN <<FALSE, "Need authorizations">>
    ELSE IF /\ allowed_operators[1] = "set"
            /\ \E i \in DOMAIN authorizations :
                  authorizations[i].operator_id \notin allowed_operators[2]
    THEN <<FALSE, "Operator not authorized">>
    ELSE IF /\ requires_multiparty(tier)
            /\ Len(authorizations) # Cardinality(Range(OperatorIds(authorizations)))
    THEN <<FALSE, "Multi-party authorization requires different operators">>
    ELSE <<TRUE, "None">>

-----------------------------------------------------------------------------
(* display/secure_engine.py *)

\* message.content.get("template_id", "unknown")
template_id_of(content) ==
    IF "template_id" \in DOMAIN content THEN content.template_id ELSE "unknown"

\* hashlib.sha256(str(message.content).encode()).hexdigest()[:16]
content_hash(content) == sha256(content)

Event(event_type, message_id, info) ==
    [event_type |-> event_type, message_id |-> message_id, info |-> info]

\* The engine is built with the default TierValidator()
engine_allowed_operators == allowed_operators_of(None)

\* What one display() call does, given what backend.render does when it is
\* reached ("true", "false" or "raises"): the outcome of each gate, the calls
\* made on the backend, the audit events logged, the _reject calls and the
\* DisplayResult (success, and error as the prefix of the text and what
\* follows it).
Rejected(v, tier, valid, event, error) ==
    [verify |-> v, tier |-> tier, valid |-> valid, calls |-> << >>,
     events |-> <<event>>, rejects |-> 1, success |-> FALSE, error |-> error]

\* display() with the call to tier_validator.validate left out
display_unvalidated(m, seen, t, crypto_available, render) ==
    LET v == verify(m, seen, t, crypto_available)
    IN  IF v.error # "ok"
        THEN Rejected(v.error, "skipped", "skipped",
                      Event("message_rejected", m.message_id, v.detail),
                      <<v.error, v.detail>>)
        ELSE IF m.tier \notin AlertTier
        THEN Rejected(v.error, "unknown", "skipped",
                      Event("message_rejected", m.message_id, <<"Unknown tier", m.tier>>),
                      <<"Unknown tier", m.tier>>)
        ELSE [verify |-> v.error, tier |-> "known", valid |-> "skipped",
              calls |-> <<"render">>,
              events |-> <<Event("message_displayed", m.message_id,
                                 <<m.tier, content_hash(m.content)>>)>>,
              rejects |-> 0, success |-> render = "true", error |-> None]

\* Lines 188-197: backend.render raised or returned false; the rejection is
\* logged and the result returned, with no call of _reject
render_failed(v, m, error) ==
    [verify |-> v, tier |-> "known", valid |-> "yes", calls |-> <<"render">>,
     events |-> <<Event("message_rejected", m.message_id, error)>>,
     rejects |-> 0, success |-> FALSE, error |-> error]

display(m, seen, t, crypto_available, render) ==
    LET v == verify(m, seen, t, crypto_available)
    IN
    \* Step 1 (lines 133-162); an exception of verify that no except clause
    \* names leaves display()
    IF v.error = "TypeError"
    THEN [verify |-> v.error, tier |-> "skipped", valid |-> "skipped", calls |-> << >>,
          events |-> << >>, rejects |-> 0, success |-> FALSE,
          error |-> <<"raised", v.error>>]
    ELSE IF v.error = "SignatureError"
    THEN Rejected(v.error, "skipped", "skipped",
                  Event("sig_invalid", m.message_id, v.detail),
                  <<"Signature verification failed", v.detail>>)
    ELSE IF v.error = "MessageExpiredError"
    THEN Rejected(v.error, "skipped", "skipped",
                  Event("message_rejected", m.message_id, "expired"),
                  <<"Message expired", m.message_id, m.expires>>)
    ELSE IF v.error = "ReplayDetectedError"
    THEN Rejected(v.error, "skipped", "skipped",
                  Event("replay_detected", m.message_id, m.nonce),
                  <<"Replay attack detected", m.nonce>>)
    ELSE IF v.error = "ValueError"
    THEN Rejected(v.error, "skipped", "skipped",
                  Event("message_rejected", m.message_id,
                        <<"Message for device", m.device_id>>),
                  <<"Invalid message", "Message for device", m.device_id>>)
    \* Step 2 (lines 164-183)
    ELSE IF m.tier \notin AlertTier
    THEN Rejected(v.error, "unknown", "skipped",
                  Event("message_rejected", m.message_id, <<"Unknown tier", m.tier>>),
                  <<"Unknown tier", m.tier>>)
    ELSE LET val == validate(m.tier, template_id_of(m.content), m.authorizations,
                             engine_allowed_operators)
         IN
         IF ~val[1]
         THEN Rejected(v.error, "known", "no",
                       Event("message_rejected", m.message_id, val[2]),
                       <<"Tier validation failed", val[2]>>)
         \* Step 3 (lines 185-197)
         ELSE IF render = "raises"
         THEN render_failed(v.error, m, <<"Render failed", "exception">>)
         ELSE IF render = "false"
         THEN render_failed(v.error, m, <<"Backend render returned false">>)
         \* Step 4 (lines 199-224)
         ELSE [verify |-> v.error, tier |-> "known", valid |-> "yes",
               calls |-> <<"render">>,
               events |-> <<Event("message_displayed", m.message_id,
                                  <<m.tier, content_hash(m.content)>>)>>,
               rejects |-> 0, success |-> TRUE, error |-> None]

-----
(* Spec: one SecureDisplayEngine over a spy backend, with its verifier.    *)
(* The messages handed to display() are what the signer makes of a request *)
(* that is sound but for one or two of its parts, possibly with the        *)
(* signature replaced.                                                      *)

Base == [device_id |-> DeviceId, ttl |-> 1, tier |-> "informational",
         content |-> Content1, authorizations |-> << >>, signature |-> "signer"]

Tiers == AlertTier \cup {"bogus"}

AuthLists == {<< >>, <<Authorization("op1")>>,
              <<Authorization("op1"), Authorization("op1")>>,
              <<Authorization("op1"), Authorization("op2")>>}

AllAuthorized == <<Authorization("op1"), Authorization("op2")>>

Content3 == [template_id |-> "area-congested"]
Content4 == [text |-> "no template"]

Requests ==
    {[Base EXCEPT !.device_id = d] : d \in DeviceIds}
    \cup {[Base EXCEPT !.ttl = ttl] : ttl \in TTLs}
    \cup {[Base EXCEPT !.signature = k] : k \in ForgeryKinds}
    \cup {[Base EXCEPT !.tier = tier] : tier \in Tiers}
    \cup {[Base EXCEPT !.tier = "warning", !.authorizations = a] :
             a \in {<< >>, <<Authorization("op1")>>}}
    \cup {[Base EXCEPT !.tier = "emergency", !.authorizations = a] : a \in AuthLists}
    \cup {[Base EXCEPT !.tier = "ipaws", !.authorizations = AllAuthorized]}
    \cup {[Base EXCEPT !.content = c] : c \in {Content2, Content4}}
    \cup {[Base EXCEPT !.tier = "advisory", !.content = Content3]}
    \cup {[Base EXCEPT !.signature = "other-key", !.tier = tier] :
             tier \in {"bogus", "emergency"}}
    \cup {[Base EXCEPT !.ttl = -1, !.tier = "emergency"]}
    \cup {[Base EXCEPT !.device_id = "dev-B", !.ttl = -1, !.signature = "none",
                       !.tier = "bogus"]}

\* the message made of a request; the signer made it at instant 0
Message(q, n) ==
    LET m == create_signed_message(q.device_id, q.tier, q.content, q.ttl,
                                   q.authorizations, n, n, 0, SignerKey, crypto)
    IN  IF q.signature = "signer" THEN m
        ELSE [m EXCEPT !.signature = Forgery(m, q.signature)]

RenderOutcomes == {"true", "false", "raises"}

\* engine.display(message); render is what backend.render does if it is called
Display(m, render) ==
    LET r == display(m, seen_nonces, now, crypto, render)
    IN  /\ (r.calls = << >>) => render = "true"
        /\ dlast' = [op |-> "display", message |-> m, result |-> r,
                     seen_had |-> m.nonce \in seen_nonces, at |-> now]
        /\ IF r.verify = "ok"
           THEN seen_nonces' \in record_nonce(seen_nonces, m.nonce)
           ELSE UNCHANGED seen_nonces
        /\ current_message' = IF r.success THEN m ELSE current_message
        /\ backend' = IF r.success THEN <<m.content>> ELSE backend
        /\ UNCHANGED notEngine

\* engine.clear()
Clear ==
    /\ dlast' = [op |-> "clear", message |-> current_message,
                 result |-> [calls |-> <<"clear">>,
                             events |-> IF current_message # NoMessage
                                        THEN <<Event("message_cleared",
                                                     current_message.message_id,
                                                     "cleared")>>
                                        ELSE << >>],
                 seen_had |-> FALSE, at |-> now]
    /\ current_message' = NoMessage
    /\ backend' = << >>
    /\ UNCHANGED <<seen_nonces, notEngine>>

Init ==
    /\ crypto \in BOOLEAN
    /\ now = 0
    /\ VerifierInit /\ KeyInit /\ ThreadInit /\ AuditInit /\ EngineInit

Next ==
    \/ Tick
    \/ \E q \in Requests, n \in Nonces, render \in RenderOutcomes :
          Display(Message(q, n), render)
    \/ Clear

Spec == Init /\ [][Next]_vars

Displayed == dlast # NoCall /\ dlast.op = "display"

\* the gates, stated of the message and of the instant of the call
PassesVerify ==
    /\ dlast.message.device_id \in {DeviceId, "*"}
    /\ has_offset(dlast.message.expires)
    /\ dlast.at <= fromisoformat(dlast.message.expires)
    /\ ~dlast.seen_had
    /\ signature_check(dlast.message, crypto) = "ok"

PassesTier ==
    /\ dlast.message.tier \in AlertTier
    /\ validate(dlast.message.tier, template_id_of(dlast.message.content),
                dlast.message.authorizations, engine_allowed_operators)[1]

\* C1: backend.render is invoked in a display() call only if, in that call,
\* verify succeeded, the tier string named a known AlertTier and the tier
\* validator returned valid; when any of the three fails, no call at all is
\* made on the backend and the call reports failure, whatever display() and
\* clear() calls came before.
C1_RenderOnlyAfterAllGates ==
    Displayed =>
        /\ (dlast.result.calls # << >>) =>
              /\ PassesVerify /\ PassesTier
              /\ dlast.result.verify = "ok"
              /\ dlast.result.tier = "known"
              /\ dlast.result.valid = "yes"
        /\ ~(PassesVerify /\ PassesTier) =>
              /\ dlast.result.calls = << >>
              /\ ~dlast.result.success

\* with a message on the display, a correctly signed emergency message with
\* a single authorization is refused by the tier validator and the backend
\* is left alone
C1_Witness ==
    /\ Displayed
    /\ current_message # NoMessage /\ current_message # dlast.message
    /\ PassesVerify /\ ~PassesTier
    /\ dlast.message.tier = "emergency"
    /\ dlast.result.calls = << >>
    /\ backend = <<current_message.content>>

-----------------------------------------------------------------------------
(* security/audit.py *)

\* AuditEvent.compute_hash: SHA-256 over every field but entry_hash, under
\* sorted keys
compute_hash(e) ==
    sha256(<<e.data, e.device_id, e.event_type, e.previous_hash, e.sequence,
             e.timestamp>>)

\* the loader's state taken back to the start of the chain at every record
hash_or_genesis(e) == GENESIS_HASH

\* event.entry_hash or computed_hash
hash_or_computed(e) == IF e.entry_hash = None THEN compute_hash(e) ELSE e.entry_hash

\* log() that leaves _last_hash as it was
log_unchained(seq, last, event_type, data, t) ==
    LET e == [sequence |-> seq + 1, timestamp |-> isoformat(t),
              event_type |-> event_type, device_id |-> DeviceId, data |-> data,
              previous_hash |-> last, entry_hash |-> None]
    IN  [event |-> [e EXCEPT !.entry_hash = compute_hash(e)],
         sequence |-> seq + 1, last_hash |-> last]

\* AuditLogger.log at instant t on a logger whose _sequence is seq and whose
\* _last_hash is last: the record written and the logger's new fields
log(seq, last, event_type, data, t) ==
    LET e == [sequence |-> seq + 1, timestamp |-> isoformat(t),
              event_type |-> event_type, device_id |-> DeviceId, data |-> data,
              previous_hash |-> last, entry_hash |-> None]
    IN  [event |-> [e EXCEPT !.entry_hash = compute_hash(e)],
         sequence |-> seq + 1, last_hash |-> compute_hash(e)]

\* the loop of verify_chain from line i on: the sequence numbers appended to
\* broken
RECURSIVE broken_from(_, _, _)
broken_from(file, i, last) ==
    IF i > Len(file) THEN << >>
    ELSE LET event == file[i]
         IN  (IF event.previous_hash # last THEN <<event.sequence>> ELSE << >>)
             \o (IF event.entry_hash # compute_hash(event)
                 THEN <<event.sequence>> ELSE << >>)
             \o broken_from(file, i + 1, hash_or_computed(event))

\* AuditLogger.verify_chain over the file.  The file exists once a record has
\* been written to it; opening a file that does not exist raises, and the
\* result is (False, [-1]).
verify_chain(file) ==
    IF file = << >> THEN <<FALSE, <<-1>>>>
    ELSE <<broken_from(file, 1, GENESIS_HASH) = << >>,
           broken_from(file, 1, GENESIS_HASH)>>

-----------------------------------------------------------------------------
(* SpecAudit: the log file of one device.  A logger writes records to it,  *)
(* the stored file is altered at most once behind the logger's back, and a *)
(* new AuditLogger is constructed over the file at any time.  The          *)
(* constructor's loop over the lines of the file is followed one iteration *)
(* at a time, since log() may run inside it.  Writes to the file succeed.  *)

notAudit == <<crypto, seen_nonces, inflight, origin, tracked, vlast, threadVars,
              lock, remote_callback, current_message, backend, tierVars,
                keyVars>>

EventTypes == {"boot", "message_displayed"}
EventData == <<"data">>
AlteredValue == <<"altered">>

StoredFields == {"sequence", "timestamp", "event_type", "device_id", "data",
                 "previous_hash", "entry_hash"}

\* The value an alteration of the stored record e writes to field f; there
\* are two ways to alter a field
Ways == {"a", "b"}

StoredAlteration(e, f, way) ==
    CASE f = "sequence"      -> IF way = "a" THEN e.sequence + 1 ELSE e.sequence + 2
      [] f = "timestamp"     -> isoformat(fromisoformat(e.timestamp) + 1)
      [] f = "event_type"    -> IF way = "a" THEN "boot" ELSE "message_displayed"
      [] f = "device_id"     -> "dev-B"
      [] f = "data"          -> AlteredValue
      [] f = "previous_hash" -> IF way = "a" THEN AlteredValue ELSE GENESIS_HASH
      [] f = "entry_hash"    -> IF way = "a" THEN AlteredValue ELSE None

\* audit.log(event_type, data) by the application
Log(event_type, data) ==
    /\ phase = "ready"
    /\ Len(log_file) < MaxLog
    /\ LET r == log(sequence, last_hash, event_type, data, now)
       IN  /\ log_file' = Append(log_file, r.event)
           /\ sequence' = r.sequence
           /\ last_hash' = r.last_hash
    /\ chain' = NoResult
    /\ UNCHANGED <<phase, cursor, load, tamper, now, dlast, notAudit>>

\* one field of the stored record i is overwritten in the file
Tamper(i, f, way) ==
    /\ phase = "ready"
    /\ tamper = NoCall
    /\ i \in DOMAIN log_file
    /\ StoredAlteration(log_file[i], f, way) # log_file[i][f]
    /\ log_file' = [log_file EXCEPT ![i][f] = StoredAlteration(log_file[i], f, way)]
    /\ tamper' = [index |-> i, field |-> f, sequence |-> log_file[i].sequence]
    /\ chain' = NoResult
    /\ UNCHANGED <<sequence, last_hash, phase, cursor, load, now, dlast, notAudit>>

\* AuditLogger(device_id, log_path): lines 128-137, up to the loop of
\* _load_existing
Construct ==
    /\ phase = "ready"
    /\ sequence' = 0
    /\ last_hash' = GENESIS_HASH
    /\ phase' = "loading"
    /\ cursor' = 0
    /\ load' = [len0 |-> Len(log_file), breaks |-> 0, altered |-> tamper # NoCall]
    /\ chain' = NoResult
    /\ UNCHANGED <<log_file, tamper, now, dlast, notAudit>>

\* one iteration of the loop of _load_existing (lines 147-175): the next line
\* of the file is read, whoever wrote it
LoadStep ==
    /\ phase = "loading"
    /\ cursor < Len(log_file)
    /\ LET event == log_file[cursor + 1]
           link_broken == event.previous_hash # last_hash
           r == log(sequence, last_hash, "tamper_detected",
                    <<"tamper", event.sequence, last_hash, event.previous_hash>>, now)
       IN  /\ link_broken => Len(log_file) < MaxFile
           /\ log_file' = IF link_broken THEN Append(log_file, r.event) ELSE log_file
           /\ load' = [load EXCEPT !.breaks = IF link_broken THEN 1 ELSE @]
           /\ sequence' = event.sequence
           /\ last_hash' = hash_or_computed(event)
    /\ cursor' = cursor + 1
    /\ UNCHANGED <<phase, tamper, chain, now, dlast, notAudit>>

\* the loop has read the last line of the file: the constructor returns
LoadDone ==
    /\ phase = "loading"
    /\ cursor = Len(log_file)
    /\ phase' = "ready"
    /\ UNCHANGED <<log_file, sequence, last_hash, cursor, load, tamper, chain, now,
                   dlast, notAudit>>

\* audit.verify_chain()
VerifyChain ==
    /\ phase = "ready"
    /\ chain' = verify_chain(log_file)
    /\ UNCHANGED <<log_file, sequence, last_hash, phase, cursor, load, tamper, now,
                   dlast, notAudit>>

InitAudit ==
    /\ crypto = FALSE
    /\ now = 0
    /\ VerifierInit /\ KeyInit /\ ThreadInit /\ AuditInit /\ EngineInit

NextAudit ==
    \/ Tick
    \/ \E event_type \in EventTypes : Log(event_type, EventData)
    \/ \E i \in 1 .. MaxLog, f \in StoredFields, way \in Ways : Tamper(i, f, way)
    \/ Construct
    \/ LoadStep
    \/ LoadDone
    \/ VerifyChain

SpecAudit == InitAudit /\ [][NextAudit]_vars

-----------------------------------------------------------------------------
(* Properties of the audit log (SpecAudit) *)

Untouched == tamper = NoCall
FreshStart == load = NoCall
ChainChecked == chain # NoResult

\* what the record before line i hands on to line i
Handed(file, i) == IF i = 1 THEN GENESIS_HASH ELSE file[i - 1].entry_hash

ChainIntact(file) ==
    \A i \in DOMAIN file :
        /\ file[i].sequence = i
        /\ file[i].previous_hash = Handed(file, i)
        /\ file[i].entry_hash = compute_hash(file[i])

Reloaded == load # NoCall /\ load.altered /\ cursor >= load.len0

\* C8: after one stored field other than entry_hash of the record with
\* sequence k is altered and the log is reloaded, verify_chain() on the file
\* returns (false, broken), and the sequence numbers in broken are exactly k.
C8_FlagsExactlyTheAlteredRecord ==
    (~Untouched /\ tamper.field # "entry_hash" /\ Reloaded) =>
        /\ verify_chain(log_file)[1] = FALSE
        /\ Range(verify_chain(log_file)[2]) = {tamper.sequence}

\* line i of the file does not continue the chain, or is not what was hashed
Discontinuity(file, i) ==
    \/ file[i].previous_hash # Handed(file, i)
    \/ file[i].entry_hash # compute_hash(file[i])

\* the file holds a TAMPER_DETECTED record naming sequence number k
Recorded(file, k) ==
    \E j \in DOMAIN file :
        /\ file[j].event_type = "tamper_detected"
        /\ file[j].data[2] = k

\* C9: once the constructor has returned, every discontinuity among the
\* records it found in the file is recorded in the file as a TAMPER_DETECTED
\* event.
C9_EveryDiscontinuityRecorded ==
    (load # NoCall /\ load.altered /\ phase = "ready") =>
        \A i \in 1 .. load.len0 :
            Discontinuity(log_file, i) => Recorded(log_file, log_file[i].sequence)

\* C10: the constructor's loop reads the records that were in the file when
\* it started, continues past a discontinuity, and finishes: it makes no
\* more iterations than there were records.
C10_LoadReadsTheExistingRecords ==
    (load # NoCall) => cursor <= load.len0

\* Once the loop has found a broken link it never reaches the end of the
\* file: each TAMPER_DETECTED record it appends is itself read as a broken
\* link, so the constructor does not return.
LoadNeverReturnsAfterBreak ==
    (load # NoCall /\ load.breaks > 0) => (phase = "loading" /\ cursor < Len(log_file))

-----------------------------------------------------------------------------
(* SpecLog: two threads call log() on one AuditLogger.  The statements of   *)
(* log() are followed one at a time; the remote callback, when set, may     *)
(* return, raise, never return, or call log() on the same logger.           *)

\* a lock that anybody can acquire at any time
lock_ignored(l) == TRUE

\* threading.Lock can be acquired when nobody holds it
lock_free(l) == l = NoThread

IdleLog == [pc |-> "idle", event |-> None, depth |-> 0]

logVars == <<thr, lock, log_file, sequence, last_hash>>
notLog == <<crypto, now, seen_nonces, inflight, origin, tracked, vlast, phase, cursor,
            load, tamper, chain, remote_callback, engineVars, tierVars,
                keyVars>>

InitLog ==
    /\ crypto = FALSE
    /\ now = 0
    /\ VerifierInit /\ KeyInit /\ EngineInit
    /\ log_file = << >> /\ sequence = 0 /\ last_hash = GENESIS_HASH
    /\ phase = "ready" /\ cursor = 0 /\ load = NoCall /\ tamper = NoCall
    /\ chain = NoResult
    /\ lock = NoThread
    /\ remote_callback \in BOOLEAN
    /\ thr = [t \in Threads |-> IdleLog]

\* the log() calls made so far, finished or not
LogCalls == Len(log_file) + Cardinality({t \in Threads : thr[t].pc # "idle"})

\* thread t calls audit.log(...)
CallLog(t) ==
    /\ thr[t].pc = "idle"
    /\ LogCalls < MaxLog
    /\ thr' = [thr EXCEPT ![t].pc = "acquire"]
    /\ UNCHANGED <<lock, log_file, sequence, last_hash, notLog>>

\* line 202: with self._lock
Acquire(t) ==
    /\ thr[t].pc = "acquire"
    /\ lock_free(lock)
    /\ lock' = t
    /\ thr' = [thr EXCEPT ![t].pc = "increment"]
    /\ UNCHANGED <<log_file, sequence, last_hash, notLog>>

\* line 203: self._sequence += 1
Increment(t) ==
    /\ thr[t].pc = "increment"
    /\ sequence' = sequence + 1
    /\ thr' = [thr EXCEPT ![t].pc = "build"]
    /\ UNCHANGED <<lock, log_file, last_hash, notLog>>

\* lines 205-218: the event is built from _sequence and _last_hash, hashed,
\* and _last_hash is set to its hash
Build(t) ==
    /\ thr[t].pc = "build"
    /\ LET r == log(sequence - 1, last_hash, "boot", <<"thread", t>>, now)
       IN  /\ thr' = [thr EXCEPT ![t].pc = "write", ![t].event = r.event]
           /\ last_hash' = r.last_hash
    /\ UNCHANGED <<lock, log_file, sequence, notLog>>

\* line 221: self._write_event(event)
Write(t) ==
    /\ thr[t].pc = "write"
    /\ log_file' = Append(log_file, thr[t].event)
    /\ thr' = [thr EXCEPT ![t].pc = IF remote_callback THEN "callback" ELSE "return"]
    /\ UNCHANGED <<lock, sequence, last_hash, notLog>>

\* lines 224-228: the callback returns, or raises and the exception is logged
CallbackReturns(t) ==
    /\ thr[t].pc = "callback"
    /\ thr' = [thr EXCEPT ![t].pc = "return"]
    /\ UNCHANGED <<lock, log_file, sequence, last_hash, notLog>>

\* line 226: the callback calls log() on the logger it was called from
CallbackLogs(t) ==
    /\ thr[t].pc = "callback"
    /\ thr[t].depth = 0
    /\ LogCalls < MaxLog + 1
    /\ thr' = [thr EXCEPT ![t].pc = "acquire", ![t].depth = 1]
    /\ UNCHANGED <<lock, log_file, sequence, last_hash, notLog>>

\* line 230 and the end of the with block: the lock is released
Return(t) ==
    /\ thr[t].pc = "return"
    /\ lock' = NoThread
    /\ thr' = [thr EXCEPT ![t].pc = IF thr[t].depth = 0 THEN "idle" ELSE "callback",
                          ![t].depth = 0, ![t].event = None]
    /\ UNCHANGED <<log_file, sequence, last_hash, notLog>>

NextLog ==
    \/ \E t \in Threads : CallLog(t)
    \/ \E t \in Threads : Acquire(t)
    \/ \E t \in Threads : Increment(t)
    \/ \E t \in Threads : Build(t)
    \/ \E t \in Threads : Write(t)
    \/ \E t \in Threads : CallbackReturns(t)
    \/ \E t \in Threads : CallbackLogs(t)
    \/ \E t \in Threads : Return(t)

SpecLog == InitLog /\ [][NextLog]_vars

C12_CallbackOutsideCriticalSection ==
    \A t \in Threads :
        /\ (thr[t].pc = "callback") =>
              \A u \in Threads \ {t} : (thr[u].pc = "acquire") => lock_free(lock)
        /\ (thr[t].pc = "acquire" /\ thr[t].depth = 1) => lock_free(lock)

-----------------------------------------------------------------------------
(* SpecValidate: a TierValidator is constructed with some allowed_operators *)
(* argument and validate() is called on it.  validate() reads nothing but   *)
(* its arguments and allowed_operators, so one call per validator is        *)
(* followed.                                                                *)

Operators == {"op1", "op2", "op3"}

\* the allowed_operators arguments given to TierValidator(...)
ConstructorArgs == {None, << >>, <<"op1">>, <<"op1", "op2">>}

TemplateIds == {"crowd-count", "area-congested", "fire-evacuation", "unknown"}

RECURSIVE ListsUpTo(_)
ListsUpTo(n) ==
    IF n = 0 THEN {<< >>}
    ELSE ListsUpTo(n - 1) \cup
         {Append(l, Authorization(op)) :
             l \in {k \in ListsUpTo(n - 1) : Len(k) = n - 1}, op \in Operators}

notTiers == <<crypto, now, verifierVars, threadVars, auditVars, engineVars, keyVars>>

InitValidate ==
    /\ crypto = FALSE
    /\ now = 0
    /\ VerifierInit /\ KeyInit /\ ThreadInit /\ AuditInit
    /\ current_message = NoMessage /\ backend = << >> /\ dlast = NoCall
    /\ validator \in {[arg |-> a, allowed_operators |-> allowed_operators_of(a)] :
                         a \in ConstructorArgs}
    /\ pending = NoPending
    /\ tlast = NoCall

\* validator.validate(tier, template_id, authorizations)
Validate(tier, template_id, authorizations) ==
    /\ tlast = NoCall
    /\ tlast' = [op |-> "validate", tier |-> tier, template_id |-> template_id,
                 authorizations |-> authorizations,
                 result |-> validate(tier, template_id, authorizations,
                                     validator.allowed_operators)]
    /\ UNCHANGED <<validator, pending, notTiers>>

NextValidate ==
    \E tier \in AlertTier, template_id \in TemplateIds,
       authorizations \in ListsUpTo(MaxAuths) :
          Validate(tier, template_id, authorizations)

SpecValidate == InitValidate /\ [][NextValidate]_vars

Validated == tlast # NoCall /\ tlast.op = "validate"

SharedOperator(authorizations) ==
    \E i \in DOMAIN authorizations : \E j \in DOMAIN authorizations :
        i # j /\ authorizations[i].operator_id = authorizations[j].operator_id

\* C14: with no operator allow-list, validate on warning or emergency returns
\* invalid when there are fewer authorizations than the tier's minimum
\* (warning 1, emergency 2), invalid for emergency when two authorizations
\* share an operator_id, however many are supplied, and valid otherwise.
C14_CountAndDistinctOperators ==
    (Validated /\ validator.arg = None /\ tlast.tier \in {"warning", "emergency"}) =>
        (tlast.result[1] <=>
            /\ Len(tlast.authorizations) >= (IF tlast.tier = "warning" THEN 1 ELSE 2)
            /\ ~(tlast.tier = "emergency" /\ SharedOperator(tlast.authorizations)))

\* three authorizations for an emergency, the first and the last by the same
\* operator, are refused
C14_Witness ==
    /\ Validated /\ validator.arg = None
    /\ tlast.tier = "emergency"
    /\ Len(tlast.authorizations) = 3
    /\ tlast.authorizations[1].operator_id = tlast.authorizations[3].operator_id
    /\ tlast.authorizations[1].operator_id # tlast.authorizations[2].operator_id
    /\ ~tlast.result[1]

\* C15: when the validator was constructed with a list of allowed operators,
\* whatever the list, validate on warning or emergency returns invalid when
\* some authorization's operator_id is not in the list.
C15_OutsideListRefused ==
    ( /\ Validated /\ validator.arg # None
      /\ tlast.tier \in {"warning", "emergency"}
      /\ \E i \in DOMAIN tlast.authorizations :
            tlast.authorizations[i].operator_id \notin Range(validator.arg) ) =>
        ~tlast.result[1]

-----------------------------------------------------------------------------
(* SpecAuthorize: a TierAuthorization made by for_tier and the              *)
(* add_authorization calls on it                                            *)

Max(a, b) == IF a >= b THEN a ELSE b

\* TierAuthorization.for_tier
for_tier(tier) ==
    [tier |-> tier, required_count |-> min_authorizations(tier), authorizations |-> << >>]

\* add_authorization without the search for a duplicate
add_authorization_unchecked(p, operator_id, t) ==
    [returned |-> TRUE,
     authorizations |-> Append(p.authorizations,
                               [operator_id |-> operator_id, method |-> "dashboard",
                                timestamp |-> isoformat(t)])]

\* TierAuthorization.add_authorization at instant t: the value returned and
\* the list afterwards
add_authorization(p, operator_id, t) ==
    IF \E i \in DOMAIN p.authorizations : p.authorizations[i].operator_id = operator_id
    THEN [returned |-> FALSE, authorizations |-> p.authorizations]
    ELSE [returned |-> TRUE,
          authorizations |-> Append(p.authorizations,
                                    [operator_id |-> operator_id, method |-> "dashboard",
                                     timestamp |-> isoformat(t)])]

\* TierAuthorization.is_satisfied
is_satisfied(p) == Len(p.authorizations) >= p.required_count

\* TierAuthorization.remaining
remaining(p) == Max(0, p.required_count - Len(p.authorizations))

\* pending = TierAuthorization.for_tier(tier)
ForTier(tier) ==
    /\ pending = NoPending
    /\ pending' = for_tier(tier)
    /\ tlast' = [op |-> "for_tier"]
    /\ UNCHANGED <<validator, notTiers>>

\* pending.add_authorization(operator_id)
AddAuthorization(operator_id) ==
    /\ pending # NoPending
    /\ Len(pending.authorizations) <= MaxAuths
    /\ LET r == add_authorization(pending, operator_id, now)
       IN  /\ pending' = [pending EXCEPT !.authorizations = r.authorizations]
           /\ tlast' = [op |-> "add_authorization", operator_id |-> operator_id,
                        returned |-> r.returned, before |-> pending]
    /\ UNCHANGED <<validator, notTiers>>

InitAuthorize ==
    /\ crypto = FALSE
    /\ now = 0
    /\ VerifierInit /\ KeyInit /\ ThreadInit /\ AuditInit /\ EngineInit

NextAuthorize ==
    \/ \E tier \in AlertTier : ForTier(tier)
    \/ \E operator_id \in Operators : AddAuthorization(operator_id)

SpecAuthorize == InitAuthorize /\ [][NextAuthorize]_vars

Added == tlast # NoCall /\ tlast.op = "add_authorization"

Accepted(p) == {p.authorizations[i].operator_id : i \in DOMAIN p.authorizations}

\* C16: after any sequence of add_authorization calls the accepted
\* authorizations have pairwise distinct operator_ids; a call for an operator
\* already present returns false and leaves the list unchanged, any other
\* call returns true and appends that operator; is_satisfied holds exactly
\* when the count has reached required_count, remaining is
\* max(0, required_count - count), no call increases remaining and none
\* turns is_satisfied from true to false.
C16_DistinctOperatorsAndMonotone ==
    (pending # NoPending) =>
        /\ ~SharedOperator(pending.authorizations)
        /\ is_satisfied(pending) <=> (Len(pending.authorizations) >= pending.required_count)
        /\ remaining(pending) = IF pending.required_count > Len(pending.authorizations)
                                THEN pending.required_count - Len(pending.authorizations)
                                ELSE 0
        /\ Added =>
              /\ (tlast.operator_id \in Accepted(tlast.before)) =>
                    /\ ~tlast.returned
                    /\ pending.authorizations = tlast.before.authorizations
              /\ (tlast.operator_id \notin Accepted(tlast.before)) =>
                    /\ tlast.returned
                    /\ Len(pending.authorizations) = Len(tlast.before.authorizations) + 1
                    /\ pending.authorizations[Len(pending.authorizations)].operator_id
                          = tlast.operator_id
              /\ remaining(pending) <= remaining(tlast.before)
              /\ is_satisfied(tlast.before) => is_satisfied(pending)

\* an emergency approval that holds two operators and is satisfied refuses
\* a second authorization by one of them
C16_Witness ==
    /\ pending # NoPending /\ Added
    /\ pending.tier = "emergency"
    /\ Len(pending.authorizations) = 2
    /\ tlast.operator_id \in Accepted(tlast.before)
    /\ ~tlast.returned
    /\ is_satisfied(pending) /\ remaining(pending) = 0

-----------------------------------------------------------------------------
(* SpecEngineAudit: the engine together with its audit logger and its hooks. *)
(* Every display() and clear() call writes its events to the audit log with  *)
(* AuditLogger.log and invokes the hooks set with set_callbacks, which are   *)
(* unset, return, or raise an Exception.                                     *)

Hooks == {"unset", "returns", "raises"}

\* the on-display hook called with no try/except around it
on_display_callback_unguarded(hook) ==
    [invoked |-> IF hook = "unset" THEN 0 ELSE 1, escapes |-> hook = "raises"]

\* Lines 212-216: the on-display hook, when set, is called once and an
\* Exception it raises is caught and logged
on_display_callback(hook) ==
    [invoked |-> IF hook = "unset" THEN 0 ELSE 1, escapes |-> FALSE]

\* _reject (lines 226-232): the on-reject hook, when set, is called once and
\* an Exception it raises is caught and logged
reject(hook) ==
    [invoked |-> IF hook = "unset" THEN 0 ELSE 1, escapes |-> FALSE]

\* the hook invocations of a display() call with outcome r, and whether the
\* call returns its DisplayResult or an exception leaves it
hooks_of(r, hook) ==
    [on_reject |-> r.rejects * reject(hook).invoked,
     on_display |-> IF r.success THEN on_display_callback(hook).invoked ELSE 0,
     returned |-> /\ r.error[1] # "raised"
                  /\ r.success => ~on_display_callback(hook).escapes
                  /\ (r.rejects > 0) => ~reject(hook).escapes]

\* the ProtocolError kind of an exception of verify
FailureKinds == {"DeviceMismatch", "Expired", "ReplayDetected", "SignatureInvalid",
                 "MalformedSignature"}

failure_kind(v) ==
    CASE v.error = "ValueError" -> "DeviceMismatch"
      [] v.error = "MessageExpiredError" -> "Expired"
      [] v.error = "ReplayDetectedError" -> "ReplayDetected"
      [] v.error = "SignatureError" /\ v.detail = "Malformed signature" -> "MalformedSignature"
      [] v.error = "SignatureError" /\ v.detail # "Malformed signature" -> "SignatureInvalid"
      [] OTHER -> "none"

\* audit.log called on each of the events in turn
RECURSIVE log_events(_, _, _, _, _)
log_events(file, seq, last, events, t) ==
    IF events = << >>
    THEN [file |-> file, sequence |-> seq, last_hash |-> last]
    ELSE LET e == Head(events)
             l == log(seq, last, e.event_type, <<e.message_id, e.info>>, t)
         IN  log_events(Append(file, l.event), l.sequence, l.last_hash, Tail(events), t)

ShownRequests ==
    {Base,
     [Base EXCEPT !.device_id = "dev-B"],
     [Base EXCEPT !.ttl = -1],
     [Base EXCEPT !.signature = "malformed"],
     [Base EXCEPT !.signature = "other-key"],
     [Base EXCEPT !.tier = "bogus"],
     [Base EXCEPT !.tier = "emergency", !.authorizations = <<Authorization("op1")>>]}

\* what the next call remembers of the call before it
Summary(c) ==
    IF c # NoCall /\ c.op = "display"
    THEN [op |-> c.op, kind |-> c.kind,
          event_types |-> [i \in DOMAIN c.result.events |->
                              c.result.events[i].event_type],
          error |-> c.result.error]
    ELSE IF c # NoCall
    THEN [op |-> c.op, kind |-> "none",
          event_types |-> [i \in DOMAIN c.result.events |->
                              c.result.events[i].event_type],
          error |-> None]
    ELSE [op |-> "none", kind |-> "none", event_types |-> << >>, error |-> None]

notShown == <<crypto, now, inflight, origin, tracked, vlast, threadVars, phase, cursor,
              load, tamper, chain, lock, remote_callback, tierVars,
                keyVars>>

\* _current_message taken from every message that reached backend.render
current_after_render(r, m, current) == IF r.calls # << >> THEN m ELSE current

\* Line 210: self._current_message = message is reached on the success path
\* only; every other path returns before it
current_after(r, m, current) == IF r.success THEN m ELSE current

\* engine.display(message), with the hooks behaving as hook
Show(m, render, hook) ==
    LET r == display(m, seen_nonces, now, crypto, render)
        l == log_events(log_file, sequence, last_hash, r.events, now)
    IN  /\ Len(log_file) < MaxShown
        /\ (r.calls = << >>) => render = "true"
        /\ dlast' = [op |-> "display", message |-> m, result |-> r,
                     seen_had |-> m.nonce \in seen_nonces, at |-> now,
                     kind |-> failure_kind(verify(m, seen_nonces, now, crypto)),
                     render |-> render, hook |-> hook, hooks |-> hooks_of(r, hook),
                     logged |-> Len(log_file), prev |-> Summary(dlast)]
        /\ IF r.verify = "ok"
           THEN seen_nonces' \in record_nonce(seen_nonces, m.nonce)
           ELSE UNCHANGED seen_nonces
        /\ log_file' = l.file
        /\ sequence' = l.sequence
        /\ last_hash' = l.last_hash
        /\ current_message' = current_after(r, m, current_message)
        /\ backend' = IF r.success THEN <<m.content>> ELSE backend
        /\ UNCHANGED notShown

\* clear() with the audit.log call left out
clear_events_never(current) == << >>

\* Lines 241-244: if self._current_message, a message_cleared event with
\* its message_id is logged
clear_events(current) ==
    IF current # NoMessage
    THEN <<Event("message_cleared", current.message_id, "cleared")>>
    ELSE << >>

\* engine.clear()
Cleared ==
    LET events == clear_events(current_message)
        l == log_events(log_file, sequence, last_hash, events, now)
    IN  /\ Len(log_file) + Len(events) <= MaxShown
        /\ dlast' = [op |-> "clear", message |-> current_message,
                     result |-> [calls |-> <<"clear">>, events |-> events],
                     logged |-> Len(log_file), prev |-> Summary(dlast)]
        /\ log_file' = l.file
        /\ sequence' = l.sequence
        /\ last_hash' = l.last_hash
        /\ current_message' = NoMessage
        /\ backend' = << >>
        /\ UNCHANGED <<seen_nonces, notShown>>

InitEngineAudit == Init

NextEngineAudit ==
    \/ \E q \in ShownRequests, n \in Nonces, render \in RenderOutcomes, hook \in Hooks :
          Show(Message(q, n), render, hook)
    \/ \E n \in Nonces : Show(Offsetless(Message(Base, n)), "true", "unset")
    \/ Cleared

SpecEngineAudit == InitEngineAudit /\ [][NextEngineAudit]_vars

\* the record the call just made appended to the audit log
Appended == log_file[Len(log_file)]

\* C17: every display() call returns with exactly one more record in the
\* audit log than it found, and that record names the message id; the record
\* is a message_displayed event if and only if the call returns success, and
\* a message_rejected, sig_invalid or replay_detected event otherwise.
C17_OneAuditEventPerCall ==
    Displayed =>
        /\ dlast.hooks.returned
        /\ Len(log_file) = dlast.logged + 1
        /\ sequence = Len(log_file)
        /\ Appended.data[1] = dlast.message.message_id
        /\ (Appended.event_type = "message_displayed") <=> dlast.result.success
        /\ ~dlast.result.success =>
              Appended.event_type \in {"message_rejected", "sig_invalid", "replay_detected"}

\* with one record in the log already, backend.render returns false for a
\* message that passed every gate, and the call logs a message_rejected event
C17_Witness ==
    /\ Displayed
    /\ dlast.logged = 1
    /\ dlast.result.calls = <<"render">>
    /\ dlast.render = "false"
    /\ ~dlast.result.success
    /\ Len(log_file) = 2
    /\ Appended.event_type = "message_rejected"

\* the event types a call logged
EventTypesOf(events) == [i \in DOMAIN events |-> events[i].event_type]

\* C18: two display() calls that fail verification with different failure
\* kinds log audit events of different types and return different errors.
C18_DistinctEventTypePerKind ==
    (/\ Displayed
     /\ dlast.kind \in FailureKinds
     /\ dlast.prev.kind \in FailureKinds
     /\ dlast.kind # dlast.prev.kind) =>
        /\ EventTypesOf(dlast.result.events) # dlast.prev.event_types
        /\ dlast.result.error # dlast.prev.error

\* C19: with the on-reject hook set, a display() call that fails at any stage
\* invokes it exactly once, a call that succeeds never invokes it, and the
\* call returns its DisplayResult even when the hook raises.
C19_RejectHookOnEveryFailure ==
    (Displayed /\ dlast.hook # "unset") =>
        /\ ~dlast.result.success => dlast.hooks.on_reject = 1
        /\ dlast.result.success => dlast.hooks.on_reject = 0
        /\ dlast.hooks.returned

\* C20: a display() call whose message passes every gate and whose render
\* returns true appends one message_displayed record carrying the message
\* id, the tier and the content fingerprint, leaves the message as the
\* current message and returns success, also when the on-display hook is
\* invoked and raises.
C20_SuccessPath ==
    (Displayed /\ PassesVerify /\ PassesTier /\ dlast.render = "true") =>
        /\ Len(log_file) = dlast.logged + 1
        /\ Appended.event_type = "message_displayed"
        /\ Appended.data = <<dlast.message.message_id,
                             <<dlast.message.tier, content_hash(dlast.message.content)>>>>
        /\ current_message = dlast.message
        /\ dlast.hooks.returned
        /\ dlast.result.success
        /\ dlast.result.error = None
        /\ (dlast.hook # "unset") => dlast.hooks.on_display = 1

\* the on-display hook raised in a call that replaced the message on display
C20_Witness ==
    /\ Displayed
    /\ dlast.hook = "raises"
    /\ dlast.hooks.on_display = 1
    /\ dlast.result.success
    /\ dlast.logged = 1
    /\ current_message = dlast.message
    /\ log_file[1].event_type = "message_displayed"
    /\ log_file[1].data[1] # dlast.message.message_id

ClearedCall == dlast # NoCall /\ dlast.op = "clear"

\* C21: a clear() call appends one message_cleared record with the id of the
\* message on display when there is one and appends nothing when there is
\* none; after it no message is current and the backend has been cleared by
\* one backend.clear() call; of two clear() calls in a row the second logs
\* nothing.
C21_ClearLogsOnlyWhatWasDisplayed ==
    ClearedCall =>
        /\ (dlast.message # NoMessage) =>
              /\ Len(log_file) = dlast.logged + 1
              /\ Appended.event_type = "message_cleared"
              /\ Appended.data[1] = dlast.message.message_id
        /\ (dlast.message = NoMessage) => Len(log_file) = dlast.logged
        /\ current_message = NoMessage
        /\ backend = << >>
        /\ dlast.result.calls = <<"clear">>
        /\ (dlast.prev.op = "clear") => dlast.result.events = << >>

\* a second clear() right after the clear() that took a message off the
\* display: the log still ends with the one message_cleared record
C21_Witness ==
    /\ ClearedCall
    /\ dlast.prev.op = "clear"
    /\ dlast.prev.event_types = <<"message_cleared">>
    /\ Len(log_file) = 2
    /\ dlast.logged = 2
    /\ Appended.event_type = "message_cleared"

\* the terminal outcome of a display() call
TerminalOutcome(c) ==
    IF c.result.success THEN "displayed"
    ELSE IF c.result.calls = << >> THEN "rejected"
    ELSE "render-failed"

\* C22: a display() call invokes backend.render at most once and returns a
\* DisplayResult; when render raises or returns false the call is a render
\* failure: unsuccessful, with the render error and one render call.
C22_TerminalOutcomes ==
    Displayed =>
        /\ dlast.hooks.returned
        /\ Len(dlast.result.calls) <= 1
        /\ (TerminalOutcome(dlast) = "displayed") <=>
              (PassesVerify /\ PassesTier /\ dlast.render = "true")
        /\ (TerminalOutcome(dlast) = "rejected") <=> ~(PassesVerify /\ PassesTier)
        /\ (TerminalOutcome(dlast) = "render-failed") <=>
              (PassesVerify /\ PassesTier /\ dlast.render \in {"false", "raises"})
        /\ (TerminalOutcome(dlast) = "render-failed") =>
              /\ dlast.result.calls = <<"render">>
              /\ dlast.result.error \in {<<"Render failed", "exception">>,
                                         <<"Backend render returned false">>}

\* backend.render raises for a sound message while another is on display
C22_Witness ==
    /\ Displayed
    /\ dlast.render = "raises"
    /\ TerminalOutcome(dlast) = "render-failed"
    /\ current_message # NoMessage
    /\ dlast.prev.event_types = <<"message_displayed">>

-----------------------------------------------------------------------------
(* security/keys.py: SoftwareKeyStore and KeyManager.  A key id is a tuple;  *)
(* the key pair generated n-th is <<"priv", n>>, <<"pub", n>>: fresh random   *)
(* bytes never repeat.  A *.key file holds the key data and what it was      *)
(* encrypted with: the password of the store that wrote it, or "plain" when  *)
(* the cryptography library is absent.                                       *)

Passwords == {"pw1", "pw2"}
ExplicitKeyIds == {<<"default">>, <<"k1">>}
KeyArgs == ExplicitKeyIds \cup {None}
SignedData == {"data"}

Put(f, k, v) == [i \in DOMAIN f \cup {k} |-> IF i = k THEN v ELSE f[i]]

\* _encrypt (lines 128-136)
encrypt(data, password, crypto_available) ==
    [data |-> data, enc |-> IF crypto_available THEN password ELSE "plain"]

\* _load_keys (lines 148-159): the files that decrypt with this store's key
\* are loaded, the others are logged and skipped
load_keys(files, password) ==
    [k \in {i \in DOMAIN files : files[i].enc = password} |-> files[k].data]

\* SoftwareKeyStore.__init__ (lines 98-108): _keys starts empty and the key
\* files are read only when the cryptography library is available
store_init(files, password, crypto_available) ==
    IF crypto_available
    THEN [password |-> password, keys |-> load_keys(files, password)]
    ELSE [password |-> "unused", keys |-> EmptyMap]

\* key_data of generate_signing_key (lines 176-201)
key_data(n, t) ==
    [key_type |-> "signing", algorithm |-> "ed25519", private_key |-> <<"priv", n>>,
     public_key |-> <<"pub", n>>, created_at |-> isoformat(t)]

\* SoftwareKeyStore.generate_signing_key and _save_key
generate_signing_key(st, files, key_id, n, t, crypto_available) ==
    IF key_id \in DOMAIN st.keys
    THEN [raised |-> "ValueError", store |-> st, files |-> files, minted |-> n]
    ELSE [raised |-> "None",
          store |-> [st EXCEPT !.keys = Put(st.keys, key_id, key_data(n + 1, t))],
          files |-> Put(files, key_id,
                        encrypt(key_data(n + 1, t), st.password, crypto_available)),
          minted |-> n + 1]

KeyNotFound == <<"KeyError">>

\* SoftwareKeyStore.get_public_key
get_public_key(st, key_id) ==
    IF key_id \notin DOMAIN st.keys THEN KeyNotFound ELSE st.keys[key_id].public_key

\* SoftwareKeyStore.sign
store_sign(st, key_id, data) ==
    IF key_id \notin DOMAIN st.keys
    THEN KeyNotFound
    ELSE <<"signature", st.keys[key_id].private_key, data>>

\* KeyManager.__init__ with the default key never generated
key_manager_init_unensured(st, files, default_id, n, t, crypto_available) ==
    [raised |-> "None", store |-> st, files |-> files, minted |-> n,
     generated |-> None, default_key_id |-> default_id]

\* KeyManager.__init__ (lines 356-364)
key_manager_init(st, files, default_id, n, t, crypto_available) ==
    IF get_public_key(st, default_id) = KeyNotFound
    THEN LET g == generate_signing_key(st, files, default_id, n, t, crypto_available)
         IN  [raised |-> g.raised, store |-> g.store, files |-> g.files,
              minted |-> g.minted, generated |-> default_id,
              default_key_id |-> default_id]
    ELSE [raised |-> "None", store |-> st, files |-> files, minted |-> n,
          generated |-> None, default_key_id |-> default_id]

\* KeyManager.sign: kid = key_id or self.default_key_id
manager_sign(st, default, data, key_id) ==
    store_sign(st, IF key_id = None THEN default ELSE key_id, data)

\* the key id rotate_key passes to generate_signing_key (lines 385-387)
new_key_id_of(new_key_id, t) ==
    IF new_key_id = None THEN <<"signing", t>> ELSE new_key_id

\* rotate_key that drops the previous default key from the store
rotate_key_dropping_old(st, files, default, new_key_id, n, t, crypto_available) ==
    LET g == generate_signing_key(st, files, new_key_id_of(new_key_id, t), n, t,
                                  crypto_available)
    IN  IF g.raised # "None"
        THEN [raised |-> g.raised, store |-> st, files |-> files, minted |-> n,
              default_key_id |-> default]
        ELSE [raised |-> "None",
              store |-> [g.store EXCEPT !.keys =
                            [k \in DOMAIN g.store.keys \ {default} |-> g.store.keys[k]]],
              files |-> g.files, minted |-> g.minted,
              default_key_id |-> new_key_id_of(new_key_id, t)]

\* KeyManager.rotate_key (lines 385-395)
rotate_key(st, files, default, new_key_id, n, t, crypto_available) ==
    LET g == generate_signing_key(st, files, new_key_id_of(new_key_id, t), n, t,
                                  crypto_available)
    IN  IF g.raised # "None"
        THEN [raised |-> g.raised, store |-> st, files |-> files, minted |-> n,
              default_key_id |-> default]
        ELSE [raised |-> "None", store |-> g.store, files |-> g.files,
              minted |-> g.minted, default_key_id |-> new_key_id_of(new_key_id, t)]

-----------------------------------------------------------------------------
(* SpecKeys: one storage path, the SoftwareKeyStore instances opened on it   *)
(* one after the other, and the KeyManager built on the current instance.    *)

notKeys == <<crypto, verifierVars, threadVars, auditVars, engineVars, tierVars>>

Before == [files |-> key_files, keys |-> store.keys, default_key_id |-> default_key_id]

\* SoftwareKeyStore(storage_path, password): a new instance on the same path;
\* the manager of the earlier instance is gone with it
OpenStore(password) ==
    /\ crypto \/ password = "pw1"
    /\ store' = store_init(key_files, password, crypto)
    /\ default_key_id' = NoManager
    /\ klast' = [op |-> "open", key_id |-> None, raised |-> "None", before |-> Before,
                 result |-> None]
    /\ UNCHANGED <<key_files, minted, now, notKeys>>

\* store.generate_signing_key(key_id)
Generate(key_id) ==
    LET g == generate_signing_key(store, key_files, key_id, minted, now, crypto)
    IN  /\ minted < MaxKeys
        /\ store' = g.store
        /\ key_files' = g.files
        /\ minted' = g.minted
        /\ klast' = [op |-> "generate", key_id |-> key_id, raised |-> g.raised,
                     before |-> Before, result |-> None]
        /\ UNCHANGED <<default_key_id, now, notKeys>>

\* KeyManager(store, default_key_id)
NewManager(default_id) ==
    LET r == key_manager_init(store, key_files, default_id, minted, now, crypto)
    IN  /\ minted < MaxKeys
        /\ default_key_id = NoManager
        /\ store' = r.store
        /\ key_files' = r.files
        /\ minted' = r.minted
        /\ default_key_id' = r.default_key_id
        /\ klast' = [op |-> "manager", key_id |-> r.generated, raised |-> r.raised,
                     before |-> Before, result |-> None]
        /\ UNCHANGED <<now, notKeys>>

\* manager.rotate_key(new_key_id)
Rotate(new_key_id) ==
    LET r == rotate_key(store, key_files, default_key_id, new_key_id, minted, now,
                        crypto)
    IN  /\ minted < MaxKeys
        /\ default_key_id # NoManager
        /\ store' = r.store
        /\ key_files' = r.files
        /\ minted' = r.minted
        /\ default_key_id' = r.default_key_id
        /\ klast' = [op |-> "rotate", key_id |-> new_key_id_of(new_key_id, now),
                     raised |-> r.raised, before |-> Before, result |-> None]
        /\ UNCHANGED <<now, notKeys>>

\* manager.sign(data, key_id)
Sign(key_id) ==
    /\ default_key_id # NoManager
    /\ klast' = [op |-> "sign", key_id |-> key_id, raised |-> "None", before |-> Before,
                 result |-> manager_sign(store, default_key_id, "data", key_id)]
    /\ UNCHANGED <<key_files, store, default_key_id, minted, now, notKeys>>

\* manager.public_key
PublicKey ==
    /\ default_key_id # NoManager
    /\ klast' = [op |-> "public_key", key_id |-> None, raised |-> "None",
                 before |-> Before, result |-> get_public_key(store, default_key_id)]
    /\ UNCHANGED <<key_files, store, default_key_id, minted, now, notKeys>>

InitKeys ==
    /\ crypto \in BOOLEAN
    /\ now = 0
    /\ ThreadInit /\ AuditInit /\ EngineInit
    /\ seen_nonces = {} /\ inflight = NoMessage /\ origin = NoCall
    /\ tracked = NoMessage /\ vlast = NoCall
    /\ key_files = EmptyMap
    /\ store = store_init(EmptyMap, "pw1", crypto)
    /\ default_key_id = NoManager
    /\ minted = 0
    /\ klast = NoCall

NextKeys ==
    \/ Tick
    \/ \E password \in Passwords : OpenStore(password)
    \/ \E key_id \in ExplicitKeyIds : Generate(key_id)
    \/ \E default_id \in ExplicitKeyIds : NewManager(default_id)
    \/ \E new_key_id \in KeyArgs : Rotate(new_key_id)
    \/ \E key_id \in KeyArgs : Sign(key_id)
    \/ PublicKey

SpecKeys == InitKeys /\ [][NextKeys]_vars

KeyCall(op) == klast # NoCall /\ klast.op = op

\* a generate_signing_key call was just made: directly, by the KeyManager
\* constructor or by rotate_key
GenerateCalled ==
    /\ klast # NoCall
    /\ klast.op \in {"generate", "manager", "rotate"}
    /\ klast.key_id # None

\* C23: a generate_signing_key(id) call raises when a key with that id is in
\* the store's keys or in a key file left under the storage path by an
\* earlier store instance, and after any generate call, failed or not, every
\* key file and every key of the store that existed before holds the same
\* key material.
C23_GenerateNeverOverwrites ==
    GenerateCalled =>
        /\ (klast.key_id \in DOMAIN klast.before.keys \cup DOMAIN klast.before.files) =>
              klast.raised = "ValueError"
        /\ \A k \in DOMAIN klast.before.files :
              /\ k \in DOMAIN key_files
              /\ key_files[k].data = klast.before.files[k].data
        /\ \A k \in DOMAIN klast.before.keys :
              /\ k \in DOMAIN store.keys
              /\ store.keys[k] = klast.before.keys[k]

C26_DefaultKeyAlwaysPresent ==
    /\ (default_key_id # NoManager) => default_key_id \in DOMAIN store.keys
    /\ KeyCall("manager") =>
          /\ klast.raised = "None"
          /\ (klast.key_id # None) <=>
                (default_key_id \notin DOMAIN klast.before.keys)
    /\ KeyCall("public_key") => klast.result = store.keys[default_key_id].public_key
    /\ (KeyCall("sign") /\ klast.key_id = None) =>
          klast.result = <<"signature", store.keys[default_key_id].private_key, "data">>

\* sign(data) after rotate_key has made k1 the default key
C26_Witness ==
    /\ KeyCall("sign")
    /\ klast.key_id = None
    /\ default_key_id = <<"k1">>
    /\ klast.result = <<"signature", <<"priv", 2>>, "data">>
    /\ DOMAIN store.keys = {<<"default">>, <<"k1">>}

-----------------------------------------------------------------------------
(* SpecRotate: threads calling manager.sign(data) while one of them at a time *)
(* calls manager.rotate_key on the same KeyManager, statement by statement;  *)
(* keys.py takes no lock.                                                    *)

\* rotate_key with the default pointer assigned before the key is generated
rotate_order_swap_first == <<"swap", "check", "save", "insert">>

\* The statements of rotate_key in program order: generate_signing_key's
\* test of the id (line 171), _save_key's file write (line 166) and
\* assignment to _keys (line 167), then self.default_key_id = new_key_id
\* (line 392)
rotate_order == <<"check", "save", "insert", "swap">>

IdleKey == [pc |-> "idle", op |-> "none", kid |-> None, during |-> {}, step |-> 0,
            data |-> None, result |-> None]

notRotate == <<crypto, now, verifierVars, auditVars, engineVars, tierVars, klast>>

\* a thread calls manager.sign(data)
CallSign(t) ==
    /\ thr[t].pc = "idle"
    /\ thr' = [thr EXCEPT ![t] = [IdleKey EXCEPT !.pc = "resolve", !.op = "sign",
                                                 !.during = {default_key_id}]]
    /\ UNCHANGED <<key_files, store, default_key_id, minted, notRotate>>

\* line 373: kid = key_id or self.default_key_id
Resolve(t) ==
    /\ thr[t].pc = "resolve"
    /\ thr' = [thr EXCEPT ![t].pc = "lookup", ![t].kid = default_key_id]
    /\ UNCHANGED <<key_files, store, default_key_id, minted, notRotate>>

\* lines 225-235 of store.sign
Lookup(t) ==
    /\ thr[t].pc = "lookup"
    /\ thr' = [thr EXCEPT ![t].pc = "signed",
                          ![t].result = store_sign(store, thr[t].kid, "data")]
    /\ UNCHANGED <<key_files, store, default_key_id, minted, notRotate>>

\* a thread calls manager.rotate_key(new_key_id); the rotate_key calls do not
\* overlap one another
CallRotate(t, new_key_id) ==
    /\ thr[t].pc = "idle"
    /\ \A u \in Threads : thr[u].op # "rotate"
    /\ minted < MaxKeys
    /\ thr' = [thr EXCEPT ![t] = [IdleKey EXCEPT !.pc = "rotate", !.op = "rotate",
                                     !.step = 1,
                                     !.kid = new_key_id_of(new_key_id, now),
                                     !.data = key_data(minted + 1, now)]]
    /\ minted' = minted + 1
    /\ UNCHANGED <<key_files, store, default_key_id, notRotate>>

\* the next statement of rotate_key
RotateStep(t) ==
    LET me == thr[t]
        stmt == rotate_order[me.step]
        next == IF me.step = Len(rotate_order)
                THEN [me EXCEPT !.pc = "rotated", !.result = "None"]
                ELSE [me EXCEPT !.step = me.step + 1]
    IN  /\ me.pc = "rotate"
        /\ CASE stmt = "check" ->
                  /\ thr' = [thr EXCEPT ![t] =
                               IF me.kid \in DOMAIN store.keys
                               THEN [me EXCEPT !.pc = "rotated", !.result = "ValueError"]
                               ELSE next]
                  /\ UNCHANGED <<key_files, store, default_key_id>>
             [] stmt = "save" ->
                  /\ key_files' = Put(key_files, me.kid,
                                      encrypt(me.data, store.password, crypto))
                  /\ thr' = [thr EXCEPT ![t] = next]
                  /\ UNCHANGED <<store, default_key_id>>
             [] stmt = "insert" ->
                  /\ store' = [store EXCEPT !.keys = Put(store.keys, me.kid, me.data)]
                  /\ thr' = [thr EXCEPT ![t] = next]
                  /\ UNCHANGED <<key_files, default_key_id>>
             [] stmt = "swap" ->
                  /\ default_key_id' = me.kid
                  /\ thr' = [u \in Threads |->
                               IF u = t THEN next
                               ELSE IF thr[u].op = "sign" /\ thr[u].pc # "idle"
                               THEN [thr[u] EXCEPT !.during = @ \cup {me.kid}]
                               ELSE thr[u]]
                  /\ UNCHANGED <<key_files, store>>
        /\ UNCHANGED <<minted, notRotate>>

\* the call returns
ReturnKey(t) ==
    /\ thr[t].pc \in {"signed", "rotated"}
    /\ thr' = [thr EXCEPT ![t] = IdleKey]
    /\ UNCHANGED <<key_files, store, default_key_id, minted, notRotate>>

\* a KeyManager on a fresh store: the constructor has generated "default"
InitRotate ==
    /\ crypto \in BOOLEAN
    /\ now = 0
    /\ AuditInit /\ EngineInit
    /\ seen_nonces = {} /\ inflight = NoMessage /\ origin = NoCall
    /\ tracked = NoMessage /\ vlast = NoCall
    /\ LET r == key_manager_init(store_init(EmptyMap, "pw1", crypto), EmptyMap,
                                 <<"default">>, 0, 0, crypto)
       IN  /\ key_files = r.files
           /\ store = r.store
           /\ default_key_id = r.default_key_id
           /\ minted = r.minted
    /\ klast = NoCall
    /\ thr = [t \in Threads |-> IdleKey]

NextRotate ==
    \/ \E t \in Threads : CallSign(t)
    \/ \E t \in Threads : Resolve(t)
    \/ \E t \in Threads : Lookup(t)
    \/ \E t \in Threads, new_key_id \in KeyArgs : CallRotate(t, new_key_id)
    \/ \E t \in Threads : RotateStep(t)
    \/ \E t \in Threads : ReturnKey(t)

SpecRotate == InitRotate /\ [][NextRotate]_vars

\* C24: whatever the interleaving of sign(data) calls with rotate_key calls,
\* the default pointer always names a key the store holds, and a sign call
\* resolves a key id that was the default when it was called or became the
\* default during the call, finds that key in the store and signs with the
\* private key of that one key.
C24_SignSeesOldOrNewKey ==
    /\ default_key_id \in DOMAIN store.keys
    /\ \A t \in Threads :
          (thr[t].op = "sign" /\ thr[t].pc \in {"lookup", "signed"}) =>
              /\ thr[t].kid \in thr[t].during
              /\ thr[t].kid \in DOMAIN store.keys
              /\ (thr[t].pc = "signed") =>
                    /\ thr[t].result # KeyNotFound
                    /\ thr[t].result =
                          <<"signature", store.keys[thr[t].kid].private_key, "data">>

\* a sign call that started under the default key finished under the key of
\* a rotation that ran in between, with the key that became the default
C24_Witness ==
    \E t \in Threads :
        /\ thr[t].op = "sign"
        /\ thr[t].pc = "signed"
        /\ thr[t].during = {<<"default">>, <<"k1">>}
        /\ thr[t].kid = <<"k1">>
        /\ default_key_id = <<"k1">>
        /\ thr[t].result = <<"signature", <<"priv", 2>>, "data">>

-----------------------------------------------------------------------------
(* SpecVerifySafe: verifier.verify_safe(message) on the messages the signer  *)
(* makes, with the signature replaced or the expiry written without its UTC  *)
(* offset in some of them.                                                   *)

\* the exceptions verify_safe catches (line 348)
Caught == {"SignatureError", "MessageExpiredError", "ReplayDetectedError", "ValueError"}

\* MessageVerifier.verify_safe (lines 338-349): what it returns, or the
\* exception that leaves it
verify_safe(m, seen, t, crypto_available) ==
    LET v == verify(m, seen, t, crypto_available)
    IN  IF v.error = "ok" THEN [returned |-> <<TRUE, None>>, raised |-> "None"]
        ELSE IF v.error \in Caught
        THEN [returned |-> <<FALSE, <<v.error, v.detail>>>>, raised |-> "None"]
        ELSE [returned |-> None, raised |-> v.error]

SafeRequests ==
    {Base,
     [Base EXCEPT !.device_id = "dev-B"],
     [Base EXCEPT !.ttl = -1],
     [Base EXCEPT !.signature = "malformed"],
     [Base EXCEPT !.signature = "other-key"]}

\* verifier.verify_safe(m)
VerifySafe(m) ==
    LET r == verify_safe(m, seen_nonces, now, crypto)
    IN  /\ vlast' = [op |-> "verify_safe", message |-> m, seen |-> seen_nonces,
                     at |-> now, result |-> r]
        /\ IF r.raised = "None" /\ r.returned[1]
           THEN seen_nonces' \in record_nonce(seen_nonces, m.nonce)
           ELSE UNCHANGED seen_nonces
        /\ UNCHANGED <<inflight, origin, tracked, notVerifier>>

InitVerifySafe == InitVerify

NextVerifySafe ==
    \/ Tick
    \/ \E q \in SafeRequests, n \in Nonces : VerifySafe(Message(q, n))
    \/ \E q \in SafeRequests, n \in Nonces : VerifySafe(Offsetless(Message(q, n)))

SpecVerifySafe == InitVerifySafe /\ [][NextVerifySafe]_vars

SafeCalled == vlast # NoCall /\ vlast.op = "verify_safe"

\* C28: a verify_safe call never raises; it returns (True, None) exactly
\* when verify, on the same message, replay cache and instant, returns True,
\* and (False, error) exactly when verify raises; and it leaves the replay
\* cache as verify leaves it.
C28_VerifySafeMirrorsVerify ==
    SafeCalled =>
        LET v == verify(vlast.message, vlast.seen, vlast.at, crypto)
        IN  /\ vlast.result.raised = "None"
            /\ (vlast.result.returned = <<TRUE, None>>) <=> (v.error = "ok")
            /\ (v.error # "ok") =>
                  vlast.result.returned = <<FALSE, <<v.error, v.detail>>>>
            /\ seen_nonces \in IF v.error = "ok"
                               THEN record_nonce(vlast.seen, vlast.message.nonce)
                               ELSE {vlast.seen}


(***************************************************************************)
(* audit.py _write_event and the engine: an append that fails.             *)
(***************************************************************************)

WriteOutcomes == {"ok", "fails"}

\* _write_event with no try/except around the append
write_event_unguarded(file, event, write) ==
    [file |-> IF write = "ok" THEN Append(file, event) ELSE file,
     escapes |-> write = "fails"]

\* _write_event (audit.py lines 232-239): the line is appended to the file;
\* an Exception of open/write/flush is caught and logged, and the file is
\* left as it was
write_event(file, event, write) ==
    [file |-> IF write = "ok" THEN Append(file, event) ELSE file,
     escapes |-> FALSE]

\* audit.log called on each of the events in turn, every append ending as
\* write: _sequence and _last_hash are advanced before _write_event is called
\* (audit.py lines 203-221), and a call an exception leaves is the last one
RECURSIVE log_events_writing(_, _, _, _, _, _)
log_events_writing(file, seq, last, events, t, write) ==
    IF events = << >>
    THEN [file |-> file, sequence |-> seq, last_hash |-> last, escapes |-> FALSE]
    ELSE LET e == Head(events)
             l == log(seq, last, e.event_type, <<e.message_id, e.info>>, t)
             w == write_event(file, l.event, write)
         IN  IF w.escapes
             THEN [file |-> w.file, sequence |-> l.sequence, last_hash |-> l.last_hash,
                   escapes |-> TRUE]
             ELSE log_events_writing(w.file, l.sequence, l.last_hash, Tail(events), t,
                                     write)

WriteRequests ==
    {Base,
     [Base EXCEPT !.device_id = "dev-B"],
     [Base EXCEPT !.ttl = -1],
     [Base EXCEPT !.signature = "other-key"],
     [Base EXCEPT !.tier = "emergency", !.authorizations = <<Authorization("op1")>>]}

\* engine.display(message) while every append to the log file ends as write
ShowWriting(m, render, write) ==
    LET r == display(m, seen_nonces, now, crypto, render)
        l == log_events_writing(log_file, sequence, last_hash, r.events, now, write)
    IN  /\ sequence < MaxShown
        /\ (r.calls = << >>) => render = "true"
        /\ dlast' = [op |-> "display", message |-> m, result |-> r,
                     seen |-> seen_nonces, at |-> now,
                     render |-> render, write |-> write,
                     returned |-> r.error[1] # "raised" /\ ~l.escapes,
                     logged |-> Len(log_file), was |-> current_message,
                     events |-> Len(r.events)]
        /\ IF r.verify = "ok"
           THEN seen_nonces' \in record_nonce(seen_nonces, m.nonce)
           ELSE UNCHANGED seen_nonces
        /\ log_file' = l.file
        /\ sequence' = l.sequence
        /\ last_hash' = l.last_hash
        /\ current_message' = IF r.success /\ ~l.escapes THEN m ELSE current_message
        /\ backend' = IF r.success THEN <<m.content>> ELSE backend
        /\ UNCHANGED notShown

\* audit.log(event_type, data) called directly while the append ends as write
LogWriting(event_type, write) ==
    LET l == log(sequence, last_hash, event_type, <<"m0", "direct">>, now)
        w == write_event(log_file, l.event, write)
    IN  /\ sequence < MaxShown
        /\ dlast' = [op |-> "log", write |-> write, returned |-> ~w.escapes,
                     result |-> l.event, logged |-> Len(log_file)]
        /\ log_file' = w.file
        /\ sequence' = l.sequence
        /\ last_hash' = l.last_hash
        /\ UNCHANGED <<seen_nonces, current_message, backend, notShown>>

InitWrite == Init

NextWrite ==
    \/ \E q \in WriteRequests, n \in Nonces, render \in RenderOutcomes,
          write \in WriteOutcomes : ShowWriting(Message(q, n), render, write)
    \/ \E n \in Nonces, write \in WriteOutcomes :
          ShowWriting(Offsetless(Message(Base, n)), "true", write)
    \/ \E event_type \in {"boot", "config_changed"}, write \in WriteOutcomes :
          LogWriting(event_type, write)

SpecWrite == InitWrite /\ [][NextWrite]_vars

\* the display() call just made, with a failing append
WriteFailed == dlast # NoCall /\ dlast.op \in {"display", "log"} /\ dlast.write = "fails"

\* C27: a failing append to the audit log file neither crashes the caller nor
\* changes a display decision: log() returns its event with nothing added to
\* the file, and display() returns exactly when it would have with a
\* successful write, with the same backend calls, the same DisplayResult and
\* the same current message
C27_FailedWriteChangesNoDecision ==
    WriteFailed =>
        /\ Len(log_file) = dlast.logged
        /\ dlast.op = "log" =>
              /\ dlast.returned
              /\ dlast.result.sequence = sequence
              /\ dlast.result.entry_hash = last_hash
        /\ dlast.op = "display" =>
              LET m == dlast.message
                  ok == display(m, dlast.seen, dlast.at, crypto, dlast.render)
              IN  /\ dlast.returned = (ok.error[1] # "raised")
                  /\ dlast.result.calls = ok.calls
                  /\ dlast.result.success = ok.success
                  /\ dlast.result.error = ok.error
                  /\ current_message = IF ok.success THEN m ELSE dlast.was
                  /\ ok.success => backend = <<m.content>>

\* C27 witness: a display() call that rendered and returned success although
\* the append of its message_displayed record failed
C27_Witness ==
    /\ WriteFailed
    /\ dlast.op = "display"
    /\ dlast.returned
    /\ dlast.result.success
    /\ dlast.events > 0
    /\ Len(log_file) = dlast.logged
    /\ current_message = dlast.message

(***************************************************************************)
(* audit.py get_entries.  The file holds the lines log() wrote, on which   *)
(* AuditEvent.from_json does not raise and none of which is blank.         *)
(***************************************************************************)

\* the event_types argument: None (omitted) or a list of AuditEventType,
\* given by the set of its members
TypeFilters == {None} \cup {<<"list", types>> : types \in SUBSET EventTypes}

SinceSequences == 0 .. MaxLog

Limits == 0 .. MaxLog + 1

\* Line 292: type_values = {t.value for t in event_types} if event_types
\* else None; an empty list is falsy
type_values_of(event_types) ==
    IF event_types = None \/ event_types[2] = {} THEN None ELSE event_types

\* Lines 296-312: the loop over the lines of the file from line i on
RECURSIVE get_entries_from(_, _, _, _, _, _)
get_entries_from(file, i, entries, since_sequence, type_values, limit) ==
    IF i > Len(file) THEN entries
    ELSE IF Len(entries) >= limit THEN entries
    ELSE LET event == file[i]
         IN  IF event.sequence <= since_sequence
             THEN get_entries_from(file, i + 1, entries, since_sequence, type_values, limit)
             ELSE IF type_values # None /\ type_values[2] # {}
                     /\ event.event_type \notin type_values[2]
             THEN get_entries_from(file, i + 1, entries, since_sequence, type_values, limit)
             ELSE get_entries_from(file, i + 1, Append(entries, event), since_sequence,
                                   type_values, limit)

\* get_entries (lines 277-317)
get_entries(file, since_sequence, event_types, limit) ==
    get_entries_from(file, 1, << >>, since_sequence, type_values_of(event_types), limit)

\* audit.get_entries(since_sequence, event_types, limit)
GetEntries(since_sequence, event_types, limit) ==
    /\ phase = "ready"
    /\ chain' = <<"get_entries",
                  [since_sequence |-> since_sequence, event_types |-> event_types,
                   limit |-> limit,
                   entries |-> get_entries(log_file, since_sequence, event_types, limit)]>>
    /\ UNCHANGED <<log_file, sequence, last_hash, phase, cursor, load, tamper, now,
                   dlast, notAudit>>

InitEntries == InitAudit

NextEntries ==
    \/ \E event_type \in EventTypes : Log(event_type, EventData)
    \/ \E since_sequence \in SinceSequences, event_types \in TypeFilters, limit \in Limits :
          GetEntries(since_sequence, event_types, limit)

SpecEntries == InitEntries /\ [][NextEntries]_vars

EntriesCalled == chain # NoResult

\* the get_entries call just made: its arguments and the list it returned
Got == chain[2]

\* the stored entries a get_entries call asks for, in log order
Matching(file, since_sequence, event_types) ==
    LET wanted(e) == /\ e.sequence > since_sequence
                     /\ event_types = None \/ e.event_type \in event_types[2]
    IN  SelectSeq(file, wanted)

\* C29: get_entries returns, in log order, exactly the first limit stored
\* entries with sequence > since_sequence whose event type is among
\* event_types (any type when event_types is omitted)
C29_EntriesAreFirstMatches ==
    EntriesCalled =>
        LET all == Matching(log_file, Got.since_sequence, Got.event_types)
        IN  Got.entries = SubSeq(all, 1, IF Got.limit < Len(all) THEN Got.limit
                                           ELSE Len(all))

\* what does hold of get_entries: never more than limit entries, none with
\* sequence <= since_sequence, and the claimed result whenever event_types
\* is omitted or names at least one type
EntriesOtherwiseAsClaimed ==
    EntriesCalled =>
        /\ Len(Got.entries) <= Got.limit
        /\ \A i \in DOMAIN Got.entries : Got.entries[i].sequence > Got.since_sequence
        /\ Got.event_types # <<"list", {}>> =>
              LET all == Matching(log_file, Got.since_sequence, Got.event_types)
              IN  Got.entries = SubSeq(all, 1, IF Got.limit < Len(all) THEN Got.limit
                                                 ELSE Len(all))

(***************************************************************************)
(* tiers.py get_tier_for_detection.  A confidence is given in hundredths:  *)
(* 90 stands for the float 0.9.                                            *)
(***************************************************************************)

DetectionTypes == {"fire", "active_shooter", "explosion", "smoke", "fight",
                   "medical_emergency", "crowd", "congestion", "weather",
                   "Fire", "vehicle", ""}

Confidences == 0 .. MaxConfidence

\* get_tier_for_detection with each threshold excluded from its band
get_tier_for_detection_strict(detection_type, confidence) ==
    IF detection_type \in {"fire", "active_shooter", "explosion"}
    THEN IF confidence > 90 THEN "emergency"
         ELSE IF confidence > 70 THEN "warning"
         ELSE "advisory"
    ELSE IF detection_type \in {"smoke", "fight", "medical_emergency"}
    THEN IF confidence > 85 THEN "warning" ELSE "advisory"
    ELSE IF detection_type \in {"crowd", "congestion", "weather"}
    THEN "informational"
    ELSE "advisory"

\* get_tier_for_detection (lines 162-194)
get_tier_for_detection(detection_type, confidence) ==
    IF detection_type \in {"fire", "active_shooter", "explosion"}
    THEN IF confidence >= 90 THEN "emergency"
         ELSE IF confidence >= 70 THEN "warning"
         ELSE "advisory"
    ELSE IF detection_type \in {"smoke", "fight", "medical_emergency"}
    THEN IF confidence >= 85 THEN "warning" ELSE "advisory"
    ELSE IF detection_type \in {"crowd", "congestion", "weather"}
    THEN "informational"
    ELSE "advisory"

\* get_tier_for_detection(detection_type, confidence) is called
Detect(detection_type, confidence) ==
    /\ tlast' = [op |-> "get_tier_for_detection", detection_type |-> detection_type,
                 confidence |-> confidence,
                 tier |-> get_tier_for_detection(detection_type, confidence)]
    /\ UNCHANGED <<validator, pending, notTiers>>

InitDetect == InitValidate

\* the latency table with every tier given the fallback of latencies.get
max_latency_seconds_fallback(tier) == 60

\* AlertTier.max_latency_seconds (tiers.py lines 53-63)
max_latency_seconds(tier) ==
    CASE tier = "informational" -> 1
      [] tier = "advisory" -> 2
      [] tier = "warning" -> 60
      [] tier = "emergency" -> 120
      [] tier = "ipaws" -> 5
      [] OTHER -> 60

\* AlertTier.ttl_seconds (tiers.py lines 65-75)
ttl_seconds(tier) ==
    CASE tier = "informational" -> 300
      [] tier = "advisory" -> 600
      [] tier = "warning" -> 900
      [] tier = "emergency" -> 1800
      [] tier = "ipaws" -> 3600
      [] OTHER -> 300

\* the five properties of an AlertTier member are read
TierProperties(tier) ==
    /\ tlast' = [op |-> "properties", tier |-> tier,
                 requires_human |-> requires_human(tier),
                 requires_multiparty |-> requires_multiparty(tier),
                 min_authorizations |-> min_authorizations(tier),
                 max_latency_seconds |-> max_latency_seconds(tier),
                 ttl_seconds |-> ttl_seconds(tier)]
    /\ UNCHANGED <<validator, pending, notTiers>>

NextDetect ==
    \/ \E detection_type \in DetectionTypes, confidence \in Confidences :
          Detect(detection_type, confidence)
    \/ \E tier \in AlertTier : TierProperties(tier)

SpecDetect == InitDetect /\ [][NextDetect]_vars

Detected == tlast # NoCall /\ tlast.op = "get_tier_for_detection"

\* C30: every detection gets a tier: fire, active_shooter and explosion get
\* emergency from confidence 0.9, warning from 0.7 and advisory below; smoke,
\* fight and medical_emergency get warning from 0.85 and advisory below;
\* crowd, congestion and weather get informational at any confidence; every
\* other type gets advisory
C30_DetectionTiers ==
    Detected =>
        LET type == tlast.detection_type
            c == tlast.confidence
        IN  /\ tlast.tier \in AlertTier
            /\ type \in {"fire", "active_shooter", "explosion"} =>
                  /\ c >= 90 => tlast.tier = "emergency"
                  /\ (c >= 70 /\ c < 90) => tlast.tier = "warning"
                  /\ c < 70 => tlast.tier = "advisory"
            /\ type \in {"smoke", "fight", "medical_emergency"} =>
                  /\ c >= 85 => tlast.tier = "warning"
                  /\ c < 85 => tlast.tier = "advisory"
            /\ type \in {"crowd", "congestion", "weather"} => tlast.tier = "informational"
            /\ type \notin {"fire", "active_shooter", "explosion", "smoke", "fight",
                            "medical_emergency", "crowd", "congestion", "weather"} =>
                  tlast.tier = "advisory"

\* C30 witness: a fire detection at exactly confidence 0.9 is classified
\* emergency
C30_Witness ==
    /\ Detected
    /\ tlast.detection_type = "fire"
    /\ tlast.confidence = 90
    /\ tlast.tier = "emergency"

-----------------------------------------------------------------------------
(* Properties of the tier table (SpecDetect) *)

PropertiesRead == tlast # NoCall /\ tlast.op = "properties"

\* the row of the tier table for each tier: requires_human,
\* requires_multiparty, min_authorizations, max latency, default TTL
TierTable(tier) ==
    CASE tier = "informational" -> <<FALSE, FALSE, 0, 1, 300>>
      [] tier = "advisory"      -> <<FALSE, FALSE, 0, 2, 600>>
      [] tier = "warning"       -> <<TRUE, FALSE, 1, 60, 900>>
      [] tier = "emergency"     -> <<TRUE, TRUE, 2, 120, 1800>>
      [] tier = "ipaws"         -> <<FALSE, FALSE, 0, 5, 3600>>

\* C31: the five properties of every tier are those of the tier table, and
\* min_authorizations is at least 1 exactly when requires_human and at least
\* 2 exactly when requires_multiparty
C31_TierTable ==
    PropertiesRead =>
        /\ <<tlast.requires_human, tlast.requires_multiparty, tlast.min_authorizations,
             tlast.max_latency_seconds, tlast.ttl_seconds>> = TierTable(tlast.tier)
        /\ (tlast.min_authorizations >= 1) = tlast.requires_human
        /\ (tlast.min_authorizations >= 2) = tlast.requires_multiparty

\* C31 witness: the properties of the emergency tier have been read
C31_Witness ==
    /\ PropertiesRead
    /\ tlast.tier = "emergency"
    /\ tlast.requires_multiparty
    /\ tlast.max_latency_seconds = 120

-----------------------------------------------------------------------------
(* The ipaws tier in the engine (Spec) *)

\* every template id the tier tables name, and the ids tried beside them
KnownTemplateIds == UNION {AUTONOMOUS_TEMPLATES(tier) : tier \in AlertTier} \cup TemplateIds

\* the display() call just made was given an ipaws message without
\* authorizations that passes verify
IpawsDisplayed ==
    /\ Displayed
    /\ PassesVerify
    /\ dlast.message.tier = "ipaws"
    /\ dlast.message.authorizations = << >>

\* C32: the ipaws tier is pass-through: for a verified ipaws message without
\* authorizations there is a template_id with which the tier validator
\* accepts it, so that display() can render it
C32_IpawsPassThrough ==
    IpawsDisplayed =>
        \E template_id \in KnownTemplateIds :
            validate("ipaws", template_id, << >>, engine_allowed_operators)[1]

\* what does hold: display() refuses every ipaws message at the tier gate,
\* with or without authorizations, and makes no call on the backend
IpawsNeverRendered ==
    (Displayed /\ PassesVerify /\ dlast.message.tier = "ipaws") =>
        /\ ~dlast.result.success
        /\ dlast.result.calls = << >>
        /\ dlast.result.error[1] = "Tier validation failed"

-----------------------------------------------------------------------------
(* The seen-nonce set across one verify() call (SpecReplay) *)

\* the verify() call just made recorded a nonce that took the set over its
\* capacity
Overflowed == Called /\ vlast.error = "ok" /\ Overflows(vlast.seen, vlast.nonce)

\* C33: a verify() call that fails leaves the seen-nonce set as it was; one
\* that succeeds adds the nonce of its message and no other nonce
C33_NonceRecordedOnSuccessOnly ==
    Called =>
        IF vlast.error = "ok"
        THEN /\ vlast.nonce \in seen_nonces
             /\ seen_nonces \ vlast.seen \subseteq {vlast.nonce}
        ELSE seen_nonces = vlast.seen

\* what does hold: a failing call changes nothing, a succeeding call adds no
\* nonce but its own, and without overflow the set is the old one with the
\* nonce added
SeenSetFrame ==
    Called =>
        /\ vlast.error # "ok" => seen_nonces = vlast.seen
        /\ vlast.error = "ok" => seen_nonces \ vlast.seen \subseteq {vlast.nonce}
        /\ (vlast.error = "ok" /\ ~Overflowed) => seen_nonces = vlast.seen \cup {vlast.nonce}

\* C34: when recording a nonce takes the seen-set over its capacity, the set
\* holds at most capacity nonces after verify returns and the nonce just
\* verified is among them, so that verifying the same message again at once
\* fails with ReplayDetectedError
C34_EvictionKeepsNewest ==
    Overflowed =>
        /\ Cardinality(seen_nonces) <= NonceCapacity
        /\ vlast.nonce \in seen_nonces

\* what does hold: after an overflow the set has lost capacity // 2 of its
\* nonces and is within its capacity again
EvictionBoundsTheSet ==
    Overflowed =>
        /\ Cardinality(seen_nonces) = NonceCapacity + 1 - (NonceCapacity \div 2)
        /\ Cardinality(seen_nonces) <= NonceCapacity
        /\ seen_nonces \subseteq vlast.seen \cup {vlast.nonce}

-----------------------------------------------------------------------------
(* Restarts of the logger over an untampered log (SpecAudit) *)

\* a logger constructed over the file, which nobody has altered, has returned
\* from its constructor
Restarted == Untouched /\ load # NoCall /\ phase = "ready"

-----------------------------------------------------------------------------
(* Sequence numbers in the file (SpecAudit) *)

StrictlyIncreasing(file) ==
    \A i, j \in DOMAIN file : i < j => file[i].sequence < file[j].sequence

\* C36: whatever log() calls and reconstructions have happened, a broken
\* chain link met by the loader included, the sequence numbers the logger
\* has written are strictly increasing in file order and none is given to
\* two records (a sequence field overwritten in the stored file is not a
\* number the logger wrote)
C36_SequenceNumbersMonotonic ==
    (Untouched \/ tamper.field # "sequence") => StrictlyIncreasing(log_file)

\* what does hold: as long as no stored record is altered, the numbers are
\* 1, 2, ... in file order across any number of restarts
SequenceNumbersOfUntouchedLog ==
    Untouched => /\ StrictlyIncreasing(log_file)
                 /\ \A i \in DOMAIN log_file : log_file[i].sequence = i

-----------------------------------------------------------------------------
(* SpecResubmit: one engine is given messages, and a message that passed    *)
(* verify without being displayed is handed to display() again, at any      *)
(* later time and after any other messages.                                 *)

ResubmitRequests ==
    {Base,
     [Base EXCEPT !.tier = "warning"],
     [Base EXCEPT !.tier = "bogus"],
     [Base EXCEPT !.content = Content4]}

notResubmit == <<crypto, now, inflight, origin, vlast, threadVars, auditVars, tierVars,
                 keyVars>>

\* engine.display(m); a message that passes verify and is not displayed may
\* be the one kept for resubmission
Submit(m, render) ==
    LET r == display(m, seen_nonces, now, crypto, render)
    IN  /\ (r.calls = << >>) => render = "true"
        /\ dlast' = [op |-> "display", message |-> m, result |-> r,
                     seen_had |-> m.nonce \in seen_nonces, at |-> now, again |-> FALSE]
        /\ IF r.verify = "ok"
           THEN seen_nonces' \in record_nonce(seen_nonces, m.nonce)
           ELSE UNCHANGED seen_nonces
        /\ \/ r.verify = "ok" /\ ~r.success /\ tracked' = m
           \/ tracked' = tracked
        /\ current_message' = IF r.success THEN m ELSE current_message
        /\ backend' = IF r.success THEN <<m.content>> ELSE backend
        /\ UNCHANGED notResubmit

\* engine.display(m) for the message m kept
Resubmit(render) ==
    LET m == tracked
        r == display(m, seen_nonces, now, crypto, render)
    IN  /\ tracked # NoMessage
        /\ (r.calls = << >>) => render = "true"
        /\ dlast' = [op |-> "display", message |-> m, result |-> r,
                     seen_had |-> m.nonce \in seen_nonces, at |-> now, again |-> TRUE]
        /\ IF r.verify = "ok"
           THEN seen_nonces' \in record_nonce(seen_nonces, m.nonce)
           ELSE UNCHANGED seen_nonces
        /\ current_message' = IF r.success THEN m ELSE current_message
        /\ backend' = IF r.success THEN <<m.content>> ELSE backend
        /\ UNCHANGED <<tracked, notResubmit>>

InitResubmit == Init

NextResubmit ==
    \/ Tick
    \/ \E q \in ResubmitRequests, n \in ReplayNonces, render \in RenderOutcomes :
          Submit(Message(q, n), render)
    \/ \E render \in RenderOutcomes : Resubmit(render)

SpecResubmit == InitResubmit /\ [][NextResubmit]_vars

\* the display() call just made was given, once more, a message that had
\* passed verify without being displayed, while its nonce was in the cache
Resubmitted == Displayed /\ dlast.again /\ dlast.seen_had

\* C37 as stated: a message that passed verify and was then refused by the
\* tier check or failed to render is rejected as a replay by every later
\* display() of it, for as long as its nonce is in the cache
C37_ResubmissionIsReplay ==
    Resubmitted =>
        /\ ~dlast.result.success
        /\ dlast.result.error[1] = "Replay attack detected"

\* C37, amended: such a message never reaches the backend by resubmission
\* while its nonce is in the cache: every later display() of it makes no
\* backend call and is rejected, as a replay while the message has not
\* expired and as expired afterwards
C37_ResubmissionNeverRenders ==
    Resubmitted =>
        /\ ~dlast.result.success
        /\ dlast.result.calls = << >>
        /\ dlast.result.error[1] = IF dlast.at > fromisoformat(dlast.message.expires)
                                   THEN "Message expired"
                                   ELSE "Replay attack detected"

\* C37 witness: a message refused by the tier check after passing verify is
\* resubmitted before it expires and rejected as a replay
C37_Witness ==
    /\ Resubmitted
    /\ dlast.message.tier = "warning"
    /\ dlast.at <= fromisoformat(dlast.message.expires)
    /\ dlast.result.error[1] = "Replay attack detected"
    /\ dlast.result.calls = << >>

-----------------------------------------------------------------------------
(* The logger's chain state and the stored log when appends fail (SpecWrite) *)

\* the sequence and entry_hash of the last record stored, 0 and GENESIS when
\* the file is empty
StoredState(file) ==
    IF file = << >> THEN <<0, GENESIS_HASH>>
    ELSE <<file[Len(file)].sequence, file[Len(file)].entry_hash>>

\* C38: after every log() call, one whose append failed included, the
\* logger's sequence and last hash are those of the last record stored in
\* the file, so that the stored records stay chained
C38_MemoryMirrorsStoredLog ==
    /\ <<sequence, last_hash>> = StoredState(log_file)
    /\ \A i \in DOMAIN log_file : log_file[i].previous_hash = Handed(log_file, i)

\* what does hold: as long as no append has failed, the logger's state is
\* that of the last stored record; in any case _sequence counts the log()
\* calls made, stored or not
SequenceCountsCalls ==
    /\ sequence >= Len(log_file)
    /\ sequence = Len(log_file) => <<sequence, last_hash>> = StoredState(log_file)
    /\ \A i \in DOMAIN log_file : log_file[i].sequence <= sequence

-----------------------------------------------------------------------------
(* The current message of the engine (SpecEngineAudit) *)

\* the log holds a message_displayed record for the message
DisplayLogged(file, m) ==
    \E i \in DOMAIN file :
        /\ file[i].event_type = "message_displayed"
        /\ file[i].data[1] = m.message_id

\* what a display() or clear() call does to current_message
CurrentMessageStep ==
    /\ (dlast' # NoCall /\ dlast'.op = "display") =>
          current_message' = IF dlast'.result.success THEN dlast'.message
                             ELSE current_message
    /\ (dlast' # NoCall /\ dlast'.op = "clear") => current_message' = NoMessage

\* C39: current_message is none or a message for which a message_displayed
\* event was logged; a successful display() makes its message the current
\* one, a display() that is rejected, fails to render or raises leaves
\* current_message as it was, and clear() sets it to none: current_message
\* is always the message of the latest successful display() since the last
\* clear()
C39_CurrentMessageIsLastDisplayed ==
    /\ [](current_message # NoMessage => DisplayLogged(log_file, current_message))
    /\ [][CurrentMessageStep]_vars

\* C39 witness: a message is current, and the display() call just made,
\* given another message, failed at the render and left it current
C39_Witness ==
    /\ Displayed
    /\ ~dlast.result.success
    /\ dlast.result.calls = <<"render">>
    /\ current_message # NoMessage
    /\ current_message # dlast.message
    /\ DisplayLogged(log_file, current_message)

-----------------------------------------------------------------------------
(* SpecWire: the signer makes a message, the message is written with       *)
(* to_json and read with from_json, and the verifier is given what was     *)
(* read.                                                                   *)

ZoneNumbers == {1, 2, MaxZone}

\* the dicts a content carries under "zones"
ZoneDicts ==
    {[k \in {<<kind, n>> : n \in numbers} |-> "open"] :
        kind \in {"int", "str"}, numbers \in SUBSET ZoneNumbers}

WireContents ==
    {Content1} \cup {[template_id |-> "crowd-count", zones |-> dict] : dict \in ZoneDicts}

WireAuthorizations == {<< >>, AllAuthorized}

\* m = signer.create_signed_message(...); verifier.verify(
\* SignedMessage.from_json(m.to_json()))
Wire(content, authorizations, n) ==
    LET m == create_signed_message(DeviceId, "emergency", content, 1, authorizations,
                                   n, n, now, SignerKey, crypto)
        received == from_json_to_json(m)
        r == verify(received, seen_nonces, now, crypto)
    IN  /\ vlast' = [op |-> "wire", sent |-> m, received |-> received,
                     direct |-> verify(m, seen_nonces, now, crypto).error,
                     wired |-> r.error]
        /\ IF r.error = "ok"
           THEN seen_nonces' \in record_nonce(seen_nonces, n)
           ELSE UNCHANGED seen_nonces
        /\ UNCHANGED <<inflight, origin, tracked, notVerifier>>

InitWire == InitVerify

NextWire ==
    \/ Tick
    \/ \E content \in WireContents, authorizations \in WireAuthorizations, n \in Nonces :
          Wire(content, authorizations, n)

SpecWire == InitWire /\ [][NextWire]_vars

Wired == vlast # NoCall /\ vlast.op = "wire"

\* C40: for every signed message m, with or without authorizations,
\* from_json(m.to_json()) has the signing payload and the signature of m,
\* and the verifier accepts it exactly when it would accept m
C40_WireRoundTrip ==
    Wired =>
        /\ payload_for_signing(vlast.received) = payload_for_signing(vlast.sent)
        /\ vlast.received.signature = vlast.sent.signature
        /\ (vlast.wired = "ok") = (vlast.direct = "ok")

\* what does hold: the signature and the authorizations come back as sent,
\* and so does the payload of every message whose content has string keys
\* only
WireRoundTripWithStringKeys ==
    Wired =>
        /\ vlast.received.signature = vlast.sent.signature
        /\ vlast.received.authorizations = vlast.sent.authorizations
        /\ ("zones" \notin DOMAIN vlast.sent.content
            \/ \A k \in DOMAIN vlast.sent.content.zones : k[1] = "str") =>
              /\ vlast.received = vlast.sent
              /\ vlast.wired = vlast.direct
=============================================================================
